---- MODULE Spec2Model ----
(***************************************************************************)
(* A model of aws-sso-util.                                                *)
(*                                                                         *)
(* Part 1, the token engine: SSOTokenFetcher (the OAuth 2.0 device flow    *)
(* with its registration and token caches) and SSOTokenProvider (the       *)
(* refresh-token path), run by independent flows that share one cache.     *)
(*                                                                         *)
(* Time is an integer number of clock ticks, TicksPerSecond to the second, *)
(* so that a datetime can carry a fraction of a second and the formatting  *)
(* of a datetime (whole seconds) is not the identity.                      *)
(***************************************************************************)
EXTENDS Integers, Sequences, FiniteSets, TLC

----------------------------------------------------------------------------
(* Bounds of the model *)

\* clock ticks in one second
TicksPerSecond == 2

\* create_token calls of a flow that the service may answer with
\* AuthorizationPending or SlowDown; the next one it answers for good
MaxAttempts == 3

\* the same for the flow that runs first
MaxEarlierAttempts == 1

\* the same for the flows that run at the same time, taken together
MaxConcurrentAttempts == 2

\* how often time passes while the flows are suspended
MaxTicks == 1

\* the time that passes then, in clock ticks (900.5 seconds)
TickStep == 1801

----------------------------------------------------------------------------
(* Constants of the program *)

_SLOW_DOWN_DELAY == 5

_DEFAULT_INTERVAL == 5

_DEFAULT_EXPIRY_WINDOW == 15 * 60

_REFRESH_WINDOW == 15 * 60

_GRANT_TYPE == "urn:ietf:params:oauth:grant-type:device_code"

_REFRESH_GRANT_TYPE == "refresh_token"

----------------------------------------------------------------------------
(* The inputs *)

None == "None"

Flows == {"f1", "f2"}

\* registration_scopes: None or a list of scopes
NoScopes == <<"None">>

Scoped == <<"list", "sso:account:access">>

Session(start_url, session_name, sso_region, registration_scopes) ==
    [start_url |-> start_url, session_name |-> session_name, sso_region |-> sso_region,
     registration_scopes |-> registration_scopes]

\* the sessions a flow is called for: two inline sessions, a named session
\* under two start URLs, and sessions that differ from another in the region
\* or in the scopes alone
Sessions ==
    {Session("https://u1", None, "us-east-1", NoScopes),
     Session("https://u2", None, "us-east-1", NoScopes),
     Session("https://u1", "s1", "us-east-1", Scoped),
     Session("https://u2", "s1", "us-east-1", Scoped),
     Session("https://u1", None, "eu-west-1", NoScopes),
     Session("https://u1", "s1", "us-east-1", NoScopes)}

\* the sessions of the flow that runs first
EarlierSessions ==
    {Session("https://u1", None, "us-east-1", NoScopes),
     Session("https://u1", "s1", "us-east-1", Scoped)}

\* the session of the flows that run at the same time
SharedSessions == {Session("https://u1", "s1", "us-east-1", Scoped)}

StartUrls == {s.start_url : s \in Sessions}

SessionNames == {s.session_name : s \in Sessions}

\* what the service answers: lifetimes in seconds
TokenLifetimes == {900, 1800}

RegistrationLifetimes == {900, 7200}

\* expiresIn of a device authorization, in seconds: short enough for the
\* sleeps of one flow to outlast it
AuthorizationLifetime == 8

\* the interval of a device authorization, where the service names one
AuthorizationInterval == 5

\* the region whose endpoint names no interval
RegionWithoutInterval == "eu-west-1"

\* what create_token may answer
Success == "Success"

CreateTokenErrors == {"AuthorizationPendingException", "SlowDownException", "ExpiredTokenException", "AccessDeniedException"}

----------------------------------------------------------------------------
(* Datetimes *)

Seconds(n) == n * TicksPerSecond

\* strftime('%Y-%m-%dT%H:%M:%S%Z'): the datetime without its fraction of a second
strftime(t) == (t \div TicksPerSecond) * TicksPerSecond

\* the fields of a cached record that hold datetime objects
DatetimeFields == {"expiresAt", "receivedAt"}

_serialize_datetimes(obj) ==
    [k \in DOMAIN obj |-> IF k \in DatetimeFields THEN strftime(obj[k]) ELSE obj[k]]

\* dateutil.parser.parse of a formatted datetime, and a datetime as it is
_parse_if_needed(value) == value

\* total_seconds(a - b) < n, on ticks
SecondsLess(a, b, n) == a - b < Seconds(n)

----------------------------------------------------------------------------
(* The state *)

VARIABLES now, cache, pc, args, registration, authorization, interval, token, ret, err, log

\* the template planner: its configuration and input, the item of the input
\* it is at and the position of the command, what resolve_templates returns,
\* the templates to write, and the state of their resources in the
\* deployment service
VARIABLES generation_config, template_process_input, item, planner_pc, parent_template, template_collection, status

\* the library: the configuration of a list_assignments call, the position
\* of its generator and what it has yielded
VARIABLES context, list_pc, yielded

\* and its lookups: what the services hold, the cache the caller passes to
\* the lookups, the calls the services have received, what the last lookup
\* gave back, and an Ids object
VARIABLES service, lookup_cache, service_calls, lookup_result, ids

\* the configuration: the configuration files and the environment the
\* sessions are looked for in, what find_all_sessions gave back, and what a
\* call on its result gave back
VARIABLES full_config, all_sessions, selected

\* the assignment configurations: the data of a configuration file, the
\* Config object it is loaded into and what validate_config gave back; the
\* event the macro handler is invoked with and its response
VARIABLES config_data, loaded_config, validation, macro_event, macro_response

engine_vars == <<now, cache, pc, args, registration, authorization, interval, token, ret, err, log>>

planner_vars == <<generation_config, template_process_input, item, planner_pc, parent_template, template_collection, status>>

list_vars == <<context, list_pc, yielded>>

lookup_vars == <<service, lookup_cache, service_calls, lookup_result, ids>>

cfn_vars == <<config_data, loaded_config, validation, macro_event, macro_response>>

config_vars == <<full_config, all_sessions, selected, cfn_vars>>

library_vars == <<list_vars, lookup_vars, config_vars>>

vars == <<engine_vars, planner_vars, library_vars>>

\* a local variable that holds nothing yet
Nothing == [nothing |-> TRUE]

\* no configuration is read
CfnIdle ==
    /\ config_data = Nothing
    /\ loaded_config = Nothing
    /\ validation = Nothing
    /\ macro_event = Nothing
    /\ macro_response = Nothing

ConfigIdle ==
    /\ CfnIdle
    /\ full_config = Nothing
    /\ all_sessions = Nothing
    /\ selected = Nothing

\* no call of the library is made
LibraryIdle ==
    /\ ConfigIdle
    /\ context = Nothing
    /\ list_pc = "idle"
    /\ yielded = <<>>
    /\ service = Nothing
    /\ lookup_cache = <<>>
    /\ service_calls = <<>>
    /\ lookup_result = Nothing
    /\ ids = Nothing

\* one observed call: a service call with its answer, a sleep with its
\* seconds, the callback; late says that the call was made after the
\* expiresAt of the flow's device authorization
Event(f, ev, resp, n) ==
    [ev |-> ev, resp |-> resp, n |-> n,
     late |-> "expiresAt" \in DOMAIN authorization[f] /\ now > authorization[f].expiresAt]

Events(f, ev) == SelectSeq(log[f], LAMBDA e : e.ev = ev)

Count(f, ev) == Len(Events(f, ev))

\* the operation flow f has been called for
Op(f) == IF "op" \in DOMAIN args[f] THEN args[f].op ELSE None

----------------------------------------------------------------------------
(* The cache: a JSONFileCache, a mapping from key to JSON document *)

\* hashlib.sha1(...).hexdigest(), taken to be free of collisions
sha1(input) == <<"sha1">> \o input

\* json.dumps with default=_serialize_utc_timestamp
_sso_json_dumps(obj) == _serialize_datetimes(obj)

\* self._cache[cache_key] = value
CacheSet(c, cache_key, value) ==
    [k \in DOMAIN c \cup {cache_key} |-> IF k = cache_key THEN _sso_json_dumps(value) ELSE c[k]]

\* a bug: the key of an inline session for a named session too
_token_cache_key_by_start_url(start_url, session_name) ==
    sha1(<<start_url>>)

_token_cache_key(start_url, session_name) ==
    sha1(<<IF session_name # None THEN session_name ELSE start_url>>)

\* a bug: the scopes are left out of the key
_registration_cache_key_without_scopes(sso_region, start_url, session_name, scopes) ==
    sha1(<<"region", sso_region, "session_name", session_name, "startUrl", start_url,
           "tool", "botocore">>)

\* the JSON of the arguments with the keys sorted
_registration_cache_key(sso_region, start_url, session_name, scopes) ==
    sha1(<<"region", sso_region, "scopes">> \o scopes
         \o <<"session_name", session_name, "startUrl", start_url, "tool", "botocore">>)

\* a bug: a token with exactly the expiry window left counts as expired
_is_expired_inclusive(response) ==
    IF "expiresAt" \notin DOMAIN response THEN TRUE
    ELSE _parse_if_needed(response["expiresAt"]) - now <= Seconds(_DEFAULT_EXPIRY_WINDOW)

_is_expired(response) ==
    IF "expiresAt" \notin DOMAIN response THEN TRUE
    ELSE SecondsLess(_parse_if_needed(response["expiresAt"]), now, _DEFAULT_EXPIRY_WINDOW)

get_token_from_cache(start_url, session_name) ==
    LET cache_key == _token_cache_key(start_url, session_name) IN
    IF cache_key \in DOMAIN cache THEN cache[cache_key] ELSE Nothing

----------------------------------------------------------------------------
(* The SSO-OIDC service *)

\* register_client: a new client, named after the flow that asked for it
RegisterClientResponse(f, lifetime) ==
    [clientId |-> <<"clientId", f>>,
     clientSecret |-> <<"clientSecret", f>>,
     clientSecretExpiresAt |-> (now \div TicksPerSecond) + lifetime]

\* start_device_authorization: a device code for the flow and its client
StartDeviceAuthorizationResponse(f, clientId, sso_region) ==
    LET base == [deviceCode |-> <<"deviceCode", f, clientId[2]>>,
                 userCode |-> <<"userCode", f>>,
                 verificationUri |-> "https://u",
                 verificationUriComplete |-> "https://u?UC",
                 expiresIn |-> AuthorizationLifetime] IN
    IF sso_region = RegionWithoutInterval THEN base
    ELSE [k \in DOMAIN base \cup {"interval"} |->
            IF k = "interval" THEN AuthorizationInterval ELSE base[k]]

\* create_token, when it succeeds: an access token issued for the device
\* code (or the refresh token) of the request, with a refresh token if asked
CreateTokenResponses(issuedFor, withRefreshToken) ==
    LET base(l) == [accessToken |-> <<"accessToken">> \o issuedFor, expiresIn |-> l] IN
    IF withRefreshToken
    THEN {[k \in {"accessToken", "expiresIn", "refreshToken"} |->
             IF k = "refreshToken" THEN <<"refreshToken">> \o issuedFor ELSE base(l)[k]] :
           l \in TokenLifetimes}
    ELSE {base(l) : l \in TokenLifetimes}

----------------------------------------------------------------------------
(* SSOTokenFetcher.fetch_token, one step for each suspension point *)

Goto(f, label) == pc' = [pc EXCEPT ![f] = label]

Logged(f, e) == log' = [log EXCEPT ![f] = Append(@, e)]

Raise(f, exception) ==
    /\ err' = [err EXCEPT ![f] = exception]
    /\ Goto(f, "raised")

\* get_token_fetcher(...).fetch_token(...): the call with its arguments
fetch_token(f, sessions, interactives) ==
    /\ pc[f] = "idle"
    /\ \E s \in sessions, force_refresh \in BOOLEAN, interactive \in interactives :
          args' = [args EXCEPT ![f] =
                     [op |-> "fetch_token", start_url |-> s.start_url, session_name |-> s.session_name,
                      sso_region |-> s.sso_region, registration_scopes |-> s.registration_scopes,
                      force_refresh |-> force_refresh, interactive |-> interactive]]
    /\ Goto(f, "_token")
    /\ UNCHANGED <<now, cache, registration, authorization, interval, token, ret, err, log>>

\* a bug: the entry that is not obeyed is removed before the token is polled for
_token_clearing_the_entry(f) ==
    /\ pc[f] = "_token"
    /\ LET cache_key == _token_cache_key(args[f].start_url, args[f].session_name) IN
       IF ~args[f].force_refresh /\ cache_key \in DOMAIN cache /\ ~_is_expired(cache[cache_key])
       THEN /\ token' = [token EXCEPT ![f] = cache[cache_key]]
            /\ ret' = [ret EXCEPT ![f] = cache[cache_key]]
            /\ Goto(f, "done")
            /\ UNCHANGED cache
       ELSE /\ cache' = [k \in DOMAIN cache \ {cache_key} |-> cache[k]]
            /\ Goto(f, "_registration")
            /\ UNCHANGED <<token, ret>>
    /\ UNCHANGED <<now, args, registration, authorization, interval, err, log>>

\* a bug: the cache is obeyed whatever force_refresh says
_token_obeying_the_cache(f) ==
    /\ pc[f] = "_token"
    /\ LET cache_key == _token_cache_key(args[f].start_url, args[f].session_name) IN
       IF cache_key \in DOMAIN cache
       THEN /\ token' = [token EXCEPT ![f] = cache[cache_key]]
            /\ IF ~_is_expired(cache[cache_key])
               THEN /\ ret' = [ret EXCEPT ![f] = cache[cache_key]]
                    /\ Goto(f, "done")
               ELSE /\ Goto(f, "_registration")
                    /\ UNCHANGED ret
       ELSE /\ Goto(f, "_registration")
            /\ UNCHANGED <<token, ret>>
    /\ UNCHANGED <<now, cache, args, registration, authorization, interval, err, log>>

\* _token, up to the call of _poll_for_token
_token(f) ==
    /\ pc[f] = "_token"
    /\ LET cache_key == _token_cache_key(args[f].start_url, args[f].session_name) IN
       IF ~args[f].force_refresh /\ cache_key \in DOMAIN cache
       THEN /\ token' = [token EXCEPT ![f] = cache[cache_key]]
            /\ IF ~_is_expired(cache[cache_key])
               THEN /\ ret' = [ret EXCEPT ![f] = cache[cache_key]]
                    /\ Goto(f, "done")
               ELSE /\ Goto(f, "_registration")
                    /\ UNCHANGED ret
       ELSE /\ Goto(f, "_registration")
            /\ UNCHANGED <<token, ret>>
    /\ UNCHANGED <<now, cache, args, registration, authorization, interval, err, log>>

\* _registration, up to the call of _register_client
_registration(f) ==
    /\ pc[f] = "_registration"
    /\ LET cache_key == _registration_cache_key(args[f].sso_region, args[f].start_url,
                                                args[f].session_name, args[f].registration_scopes) IN
       IF cache_key \in DOMAIN cache /\ ~_is_expired(cache[cache_key])
       THEN /\ registration' = [registration EXCEPT ![f] = cache[cache_key]]
            /\ Goto(f, "_authorize_client")
       ELSE /\ Goto(f, "_register_client")
            /\ UNCHANGED registration
    /\ UNCHANGED <<now, cache, args, authorization, interval, token, ret, err, log>>

\* the registration made of a register_client response
NewRegistration(response, timestamp, scopes) ==
    LET base == [clientId |-> response.clientId,
                 clientSecret |-> response.clientSecret,
                 expiresAt |-> Seconds(response.clientSecretExpiresAt),
                 receivedAt |-> strftime(timestamp)] IN
    _serialize_datetimes(
        IF Len(scopes) > 1
        THEN [k \in DOMAIN base \cup {"scopes"} |-> IF k = "scopes" THEN scopes ELSE base[k]]
        ELSE base)

\* _register_client and the rest of _registration: the registration is stored
_register_client(f) ==
    /\ pc[f] = "_register_client"
    /\ \E lifetime \in RegistrationLifetimes :
         LET cache_key == _registration_cache_key(args[f].sso_region, args[f].start_url,
                                                  args[f].session_name, args[f].registration_scopes)
             new == NewRegistration(RegisterClientResponse(f, lifetime), now,
                                    args[f].registration_scopes) IN
         /\ registration' = [registration EXCEPT ![f] = new]
         /\ cache' = CacheSet(cache, cache_key, new)
    /\ Logged(f, Event(f, "register_client", Success, 0))
    /\ Goto(f, "_authorize_client")
    /\ UNCHANGED <<now, args, authorization, interval, token, ret, err>>

\* the authorization made of a start_device_authorization response
NewAuthorization(response, timestamp) ==
    LET base == [deviceCode |-> response.deviceCode,
                 userCode |-> response.userCode,
                 verificationUri |-> response.verificationUri,
                 verificationUriComplete |-> response.verificationUriComplete,
                 expiresAt |-> timestamp + Seconds(response.expiresIn)] IN
    IF "interval" \in DOMAIN response
    THEN [k \in DOMAIN base \cup {"interval"} |-> IF k = "interval" THEN response.interval ELSE base[k]]
    ELSE base

\* authorization.get('interval', self._DEFAULT_INTERVAL)
FirstInterval(auth) ==
    IF "interval" \in DOMAIN auth THEN auth.interval ELSE _DEFAULT_INTERVAL

\* _authorize_client and the interval _poll_for_token starts with
_authorize_client(f) ==
    /\ pc[f] = "_authorize_client"
    /\ LET response == StartDeviceAuthorizationResponse(f, registration[f].clientId, args[f].sso_region)
           auth == NewAuthorization(response, now) IN
       /\ authorization' = [authorization EXCEPT ![f] = auth]
       /\ interval' = [interval EXCEPT ![f] = FirstInterval(auth)]
    /\ Logged(f, Event(f, "start_device_authorization", Success, 0))
    /\ Goto(f, "first_attempt")
    /\ UNCHANGED <<now, cache, args, registration, token, ret, err>>

\* a bug: the token names the registration the cache holds when the token
\* arrives, not the registration the flow asked with
NewToken_with_cached_registration(start_url, sso_region, reg, response, timestamp) ==
    LET keys == {k \in DOMAIN cache :
                   {"clientId", "clientSecret"} \subseteq DOMAIN cache[k]
                   /\ "accessToken" \notin DOMAIN cache[k]}
        cached == IF keys = {} THEN reg ELSE cache[CHOOSE k \in keys : TRUE]
        base == [startUrl |-> start_url,
                 region |-> sso_region,
                 accessToken |-> response.accessToken,
                 expiresAt |-> timestamp + Seconds(response.expiresIn),
                 receivedAt |-> timestamp,
                 clientId |-> cached.clientId,
                 clientSecret |-> cached.clientSecret,
                 registrationExpiresAt |-> cached.expiresAt] IN
    _serialize_datetimes(
        IF "refreshToken" \in DOMAIN response
        THEN [k \in DOMAIN base \cup {"refreshToken"} |->
                IF k = "refreshToken" THEN response.refreshToken ELSE base[k]]
        ELSE base)

\* the token made of a create_token response
NewToken(start_url, sso_region, reg, response, timestamp) ==
    LET base == [startUrl |-> start_url,
                 region |-> sso_region,
                 accessToken |-> response.accessToken,
                 expiresAt |-> timestamp + Seconds(response.expiresIn),
                 receivedAt |-> timestamp,
                 clientId |-> reg.clientId,
                 clientSecret |-> reg.clientSecret,
                 registrationExpiresAt |-> reg.expiresAt] IN
    _serialize_datetimes(
        IF "refreshToken" \in DOMAIN response
        THEN [k \in DOMAIN base \cup {"refreshToken"} |->
                IF k = "refreshToken" THEN response.refreshToken ELSE base[k]]
        ELSE base)

\* a bug: ExpiredTokenException is taken like AuthorizationPendingException
ExceptClause_expired_passes(exception) ==
    CASE exception = "SlowDownException" -> "slow_down"
      [] exception = "AuthorizationPendingException" -> "pass"
      [] exception = "ExpiredTokenException" -> "pass"
      [] OTHER -> "propagate"

\* the except clause of _create_token_attempt that takes an error of create_token
ExceptClause(exception) ==
    CASE exception = "SlowDownException" -> "slow_down"
      [] exception = "AuthorizationPendingException" -> "pass"
      [] exception = "ExpiredTokenException" -> "raise"
      [] OTHER -> "propagate"

\* the interval after a create_token call that brought no token
NextInterval(i, exception) ==
    IF ExceptClause(exception) = "slow_down" THEN i + _SLOW_DOWN_DELAY ELSE i

\* a bug: the loop asks again without sleeping
AfterAttempt_without_sleep(label) ==
    IF label = "first_attempt" THEN "on_pending_authorization" ELSE "loop_attempt"

\* where _poll_for_token goes on after an attempt that brought no token
AfterAttempt(label) ==
    IF label = "first_attempt" THEN "on_pending_authorization" ELSE "_sleep"

\* how often the service has been asked for the token of a device flow
RECURSIVE Attempts(_)
Attempts(flows) ==
    IF flows = {} THEN 0
    ELSE LET f == CHOOSE g \in flows : TRUE IN Count(f, "create_token") + Attempts(flows \ {f})

\* _create_token_attempt, the one before the prompt and those of the loop
_create_token_attempt(f, budget) ==
    /\ pc[f] \in {"first_attempt", "loop_attempt"}
    /\ \/ \E response \in CreateTokenResponses(Tail(authorization[f].deviceCode),
                                                "scopes" \in DOMAIN registration[f]) :
            /\ token' = [token EXCEPT ![f] =
                            NewToken(args[f].start_url, args[f].sso_region, registration[f],
                                     response, now)]
            /\ Logged(f, Event(f, "create_token", Success, 0))
            /\ Goto(f, "_cache_token")
            /\ UNCHANGED <<interval, err>>
       \/ \E exception \in CreateTokenErrors :
            /\ exception \in {"SlowDownException", "AuthorizationPendingException"}
                  => Attempts(Flows) < budget
            /\ Logged(f, Event(f, "create_token", exception, 0))
            /\ CASE ExceptClause(exception) = "raise" ->
                       /\ Raise(f, "PendingAuthorizationExpiredError")
                       /\ UNCHANGED <<token, interval>>
                 [] ExceptClause(exception) = "propagate" ->
                       /\ Raise(f, exception)
                       /\ UNCHANGED <<token, interval>>
                 [] OTHER ->
                       /\ interval' = [interval EXCEPT ![f] = NextInterval(@, exception)]
                       /\ Goto(f, AfterAttempt(pc[f]))
                       /\ UNCHANGED <<token, err>>
    /\ UNCHANGED <<now, cache, args, registration, authorization, ret>>

\* a bug: the browser handler whatever interactive says
Callback_always_browser(interactive) == "OpenBrowserHandler"

\* the callback get_token_fetcher installs
Callback(interactive) ==
    IF interactive THEN "OpenBrowserHandler" ELSE "non_interactive_auth_raiser"

\* self._on_pending_authorization(**authorization)
on_pending_authorization(f) ==
    /\ pc[f] = "on_pending_authorization"
    /\ Logged(f, [ev |-> "on_pending_authorization", resp |-> Callback(args[f].interactive),
                  n |-> 0, late |-> now > authorization[f].expiresAt,
                  userCode |-> authorization[f].userCode])
    /\ \/ /\ Callback(args[f].interactive) = "non_interactive_auth_raiser"
          /\ Raise(f, "AuthenticationNeededError")
       \/ /\ Callback(args[f].interactive) = "OpenBrowserHandler"
          /\ Goto(f, "loop_attempt")
          /\ UNCHANGED err
       \/ /\ Callback(args[f].interactive) = "OpenBrowserHandler"
          /\ Raise(f, "AuthDispatchError")
    /\ UNCHANGED <<now, cache, args, registration, authorization, interval, token, ret>>

\* self._sleep(interval) at the end of a turn of the loop
_sleep(f) ==
    /\ pc[f] = "_sleep"
    /\ now' = now + Seconds(interval[f])
    /\ Logged(f, Event(f, "sleep", Success, interval[f]))
    /\ Goto(f, "loop_attempt")
    /\ UNCHANGED <<cache, args, registration, authorization, interval, token, ret, err>>

\* the end of _token: the token is stored and returned
_cache_token(f) ==
    /\ pc[f] = "_cache_token"
    /\ cache' = CacheSet(cache, _token_cache_key(args[f].start_url, args[f].session_name), token[f])
    /\ ret' = [ret EXCEPT ![f] = token[f]]
    /\ Goto(f, "done")
    /\ UNCHANGED <<now, args, registration, authorization, interval, token, err, log>>

\* time passes while the flows wait for the service or for each other
Tick ==
    /\ now < MaxTicks * TickStep
    /\ now' = now + TickStep
    /\ UNCHANGED <<cache, pc, args, registration, authorization, interval, token, ret, err, log>>

----------------------------------------------------------------------------
(* SSOTokenProvider: the token of the credential provider, refreshed with   *)
(* the refresh token. The SSOTokenLoader it reads and writes the cache with *)
(* is botocore's: the key is the one of _token_cache_key.                   *)

\* SSOTokenProvider(...).load_token(), evaluated: the call with its arguments
load_token(f, sessions) ==
    /\ pc[f] = "idle"
    /\ \E s \in sessions :
          args' = [args EXCEPT ![f] =
                     [op |-> "load_token", start_url |-> s.start_url, session_name |-> s.session_name,
                      sso_region |-> s.sso_region]]
    /\ Goto(f, "_refresher")
    /\ UNCHANGED <<now, cache, registration, authorization, interval, token, ret, err, log>>

\* the checks of _refresh_access_token before its create_token call
Refreshable(token_dict) ==
    /\ {"refreshToken", "clientId", "clientSecret", "registrationExpiresAt"} \subseteq DOMAIN token_dict
    /\ ~(_parse_if_needed(token_dict.registrationExpiresAt) - now <= 0)

\* _refresher, up to the create_token call of _attempt_create_token
_refresher(f) ==
    /\ pc[f] = "_refresher"
    /\ LET cache_key == _token_cache_key(args[f].start_url, args[f].session_name) IN
       IF cache_key \notin DOMAIN cache \/ ~({"accessToken", "expiresAt"} \subseteq DOMAIN cache[cache_key])
       THEN /\ Raise(f, "SSOTokenLoadError")
            /\ UNCHANGED <<token, ret>>
       ELSE LET token_dict == cache[cache_key] IN
            IF SecondsLess(_parse_if_needed(token_dict.expiresAt), now, _REFRESH_WINDOW)
               /\ Refreshable(token_dict)
            THEN /\ token' = [token EXCEPT ![f] = token_dict]
                 /\ Goto(f, "_attempt_create_token")
                 /\ UNCHANGED <<ret, err>>
            ELSE /\ ret' = [ret EXCEPT ![f] = token_dict]
                 /\ Goto(f, "done")
                 /\ UNCHANGED <<token, err>>
    /\ UNCHANGED <<now, cache, args, registration, authorization, interval, log>>

\* the token _attempt_create_token makes of a create_token response
RefreshedToken(start_url, sso_region, old, response, timestamp) ==
    LET base == [startUrl |-> start_url,
                 region |-> sso_region,
                 accessToken |-> response.accessToken,
                 expiresAt |-> timestamp + Seconds(response.expiresIn),
                 clientId |-> old.clientId,
                 clientSecret |-> old.clientSecret,
                 registrationExpiresAt |-> old.registrationExpiresAt] IN
    IF "refreshToken" \in DOMAIN response
    THEN [k \in DOMAIN base \cup {"refreshToken"} |->
            IF k = "refreshToken" THEN response.refreshToken ELSE base[k]]
    ELSE base

\* _attempt_create_token, and what _refresh_access_token and _refresher do
\* with a ClientError: the token of the cache is returned as it is
_attempt_create_token(f) ==
    /\ pc[f] = "_attempt_create_token"
    /\ \/ \E response \in CreateTokenResponses(<<f, token[f].clientId[2], "refreshed">>, TRUE) :
            /\ token' = [token EXCEPT ![f] =
                            RefreshedToken(args[f].start_url, args[f].sso_region, @, response, now)]
            /\ Logged(f, Event(f, "create_token(refresh_token)", Success, 0))
            /\ Goto(f, "save_token")
            /\ UNCHANGED ret
       \/ /\ Logged(f, Event(f, "create_token(refresh_token)", "ClientError", 0))
          /\ ret' = [ret EXCEPT ![f] = token[f]]
          /\ Goto(f, "done")
          /\ UNCHANGED token
    /\ UNCHANGED <<now, cache, args, registration, authorization, interval, err>>

\* self._token_loader.save_token(...) and the return of _refresher
save_token(f) ==
    /\ pc[f] = "save_token"
    /\ cache' = CacheSet(cache, _token_cache_key(args[f].start_url, args[f].session_name), token[f])
    /\ ret' = [ret EXCEPT ![f] = token[f]]
    /\ Goto(f, "done")
    /\ UNCHANGED <<now, args, registration, authorization, interval, token, err, log>>

----------------------------------------------------------------------------
(* Logging out: SSOTokenFetcher.pop_token_from_cache and the library's logout *)

\* the attributes an SSOTokenFetcher has: those of the class and those
\* __init__ sets
SSOTokenFetcherAttributes ==
    {"_SLOW_DOWN_DELAY", "_DEFAULT_INTERVAL", "_DEFAULT_EXPIRY_WINDOW",
     "_CLIENT_REGISTRATION_TYPE", "_GRANT_TYPE", "__init__",
     "_sso_region", "_client_creator", "_on_pending_authorization", "_time_fetcher",
     "_sleep", "_cache", "_expiry_window",
     "_utc_now", "_parse_if_needed", "_is_expired", "_client", "_register_client",
     "_registration_cache_key", "_registration", "_authorize_client", "_poll_for_token",
     "_create_token_attempt", "_token_cache_key", "_token", "fetch_token",
     "get_token_from_cache", "pop_token_from_cache", "is_token_expired"}

\* Python's None, True and False and an exception object, as values returned
PyNone == [none |-> TRUE]

PyBool(b) == [bool |-> b]

PyException(e) == [exception |-> e]

\* del self._cache[cache_key]
CacheDel(c, cache_key) == [k \in DOMAIN c \ {cache_key} |-> c[k]]

\* pop_token_from_cache on cache c: the exception it raises if any, the value
\* it returns and the cache it leaves. self._cache_key is looked up first;
\* were it the key the other methods use, the rest of the body would run
PopTokenFromCache(c, start_url, session_name) ==
    IF "_cache_key" \notin SSOTokenFetcherAttributes
    THEN [raises |-> "AttributeError", returns |-> PyNone, cache |-> c]
    ELSE LET cache_key == _token_cache_key(start_url, session_name) IN
         IF cache_key \in DOMAIN c
         THEN [raises |-> None, returns |-> c[cache_key], cache |-> CacheDel(c, cache_key)]
         ELSE [raises |-> None, returns |-> PyNone, cache |-> c]

\* token_fetcher.pop_token_from_cache(start_url, session_name), the whole call
pop_token_from_cache(f, sessions) ==
    /\ pc[f] = "idle"
    /\ \E s \in sessions :
          LET popped == PopTokenFromCache(cache, s.start_url, s.session_name) IN
          /\ args' = [args EXCEPT ![f] =
                        [op |-> "pop_token_from_cache", start_url |-> s.start_url,
                         session_name |-> s.session_name, sso_region |-> s.sso_region]]
          /\ cache' = popped.cache
          /\ IF popped.raises # None
             THEN /\ Raise(f, popped.raises)
                  /\ UNCHANGED ret
             ELSE /\ ret' = [ret EXCEPT ![f] = popped.returns]
                  /\ Goto(f, "done")
                  /\ UNCHANGED err
    /\ UNCHANGED <<now, registration, authorization, interval, token, log>>

\* what client.logout(accessToken=...) of the SSO service may do
LogoutErrors == {None, "UnauthorizedException"}

\* logout(start_url, sso_region), the whole call: the token is popped under
\* the start URL alone, and every exception is caught and returned
logout(f, sessions) ==
    /\ pc[f] = "idle"
    /\ \E s \in sessions, error \in LogoutErrors :
          LET popped == PopTokenFromCache(cache, s.start_url, None) IN
          /\ args' = [args EXCEPT ![f] =
                        [op |-> "logout", start_url |-> s.start_url,
                         session_name |-> None, sso_region |-> s.sso_region]]
          /\ cache' = popped.cache
          /\ IF popped.raises # None
             THEN /\ ret' = [ret EXCEPT ![f] = PyException(popped.raises)]
                  /\ UNCHANGED log
             ELSE IF popped.returns = PyNone
             THEN /\ ret' = [ret EXCEPT ![f] = PyBool(TRUE)]
                  /\ UNCHANGED log
             ELSE /\ Logged(f, [ev |-> "logout", resp |-> error, n |-> 0, late |-> FALSE,
                                accessToken |-> popped.returns.accessToken])
                  /\ ret' = [ret EXCEPT ![f] =
                               IF error # None THEN PyException(error) ELSE PyBool(FALSE)]
    /\ Goto(f, "done")
    /\ UNCHANGED <<now, registration, authorization, interval, token, err>>

----------------------------------------------------------------------------
(* Part 2, the template planner: GenerationConfig, the resources of a      *)
(* configuration, resolve_templates and ParentTemplate.get_templates, and   *)
(* the deployment service that creates the resources of the templates.      *)

(* Bounds of the planner *)

\* the assignments of a configuration
MaxAssignments == 5

\* the values of max_concurrent_assignments
MaxWindow == 2

\* the values of num_child_stacks
MaxChildStacks == 2

\* the resources of the base template
MaxBaseResources == 1

(* Constants of the planner *)

DEFAULT_MAX_RESOURCES_PER_TEMPLATE == 500

DEFAULT_MAX_CONCURRENT_ASSIGNMENTS == 20

\* an int or None: the empty tuple is None
Some(n) == <<n>>

NoInt == <<>>

\* DEFAULT_NUM_CHILD_STACKS = None
DEFAULT_NUM_CHILD_STACKS == NoInt

\* math.ceil(a / b) for a >= 0 and b >= 1
math_ceil(a, b) == (a + b - 1) \div b

\* max(a, b)
max(a, b) == IF a >= b THEN a ELSE b

\* GenerationConfig.max_resources_per_template
max_resources_per_template(self) ==
    IF self._max_resources_per_template = NoInt \/ self._max_resources_per_template[1] < 1
    THEN DEFAULT_MAX_RESOURCES_PER_TEMPLATE
    ELSE self._max_resources_per_template[1]

\* GenerationConfig.max_concurrent_assignments
max_concurrent_assignments(self) ==
    IF self._max_concurrent_assignments = NoInt \/ self._max_concurrent_assignments[1] < 1
    THEN DEFAULT_MAX_CONCURRENT_ASSIGNMENTS
    ELSE self._max_concurrent_assignments[1]

\* the explicit setting alone
num_child_stacks_without_allocation(self) ==
    IF self._num_child_stacks # NoInt /\ self._num_child_stacks[1] >= 0
    THEN self._num_child_stacks
    ELSE DEFAULT_NUM_CHILD_STACKS

\* GenerationConfig.num_child_stacks
num_child_stacks(self) ==
    LET num_stacks_1 ==
            IF self._max_assignments_allocation # NoInt /\ self._max_assignments_allocation[1] >= 1
            THEN Some(math_ceil(self._max_assignments_allocation[1], max_resources_per_template(self)))
            ELSE NoInt
        num_stacks_2 ==
            IF self._num_child_stacks # NoInt /\ self._num_child_stacks[1] >= 0
            THEN self._num_child_stacks
            ELSE NoInt IN
    IF num_stacks_1 # NoInt /\ num_stacks_2 # NoInt THEN Some(max(num_stacks_1[1], num_stacks_2[1]))
    ELSE IF num_stacks_1 # NoInt THEN num_stacks_1
    ELSE IF num_stacks_2 # NoInt THEN num_stacks_2
    ELSE DEFAULT_NUM_CHILD_STACKS

\* GenerationConfig.get_max_number_of_child_stacks
get_max_number_of_child_stacks(self, num_resources) ==
    IF num_child_stacks(self) # NoInt THEN num_child_stacks(self)[1]
    ELSE math_ceil(num_resources, max_resources_per_template(self))

(* The resources *)

\* An assignment: key is a number that stands for its instance, principal,
\* permission set and target; source_ou is the OU its target account was
\* found in, None for an account of the configuration's accounts
Assignment(resource_name_prefix, key, source_ou) ==
    [_resource_name_prefix |-> resource_name_prefix, key |-> key, source_ou |-> source_ou]

\* hashlib.md5 of instance, principal, permission set and target, as the
\* integer of its digest read big-endian: two hexadecimal digits here,
\* different for different keys
get_hash(assignment) == (assignment.key * 37 + 11) % 256

\* no DependsOn
NoDependsOn == <<>>

\* a name that tells the source OU as well
get_resource_name_with_source(assignment) ==
    <<assignment._resource_name_prefix, "Assignment", get_hash(assignment) \div 16, assignment.source_ou>>

\* Assignment.get_resource_name: the prefix, "Assignment" and the first
\* digits of the hexadecimal digest, one digit here
get_resource_name(assignment) ==
    <<assignment._resource_name_prefix, "Assignment", get_hash(assignment) \div 16>>

\* Assignment.get_resource, of which the type, the AccountSourceOU of the
\* metadata and the DependsOn are kept
get_resource(assignment, depends_on) ==
    [name |-> get_resource_name(assignment), Type |-> "AWS::SSO::Assignment",
     Metadata |-> assignment.source_ou, DependsOn |-> depends_on, assignment |-> assignment]

\* a permission set is given by an ARN or as a resource of its own, number n
PermissionSetArn == [type |-> "ARN", n |-> 0]

PermissionSetResource(n) == [type |-> "RESOURCE", n |-> n]

\* PermissionSetResources.num_resources
num_resources(permission_sets) ==
    Len(SelectSeq(permission_sets, LAMBDA ps : ps.type = "RESOURCE"))

\* every assignment in the first chunk
chunk_without_hash(assignments, num, ind) ==
    IF ind = 0 THEN assignments ELSE <<>>

\* AssignmentResources.allocate: chunk ind, counted from 0, of num chunks
chunk(assignments, num, ind) ==
    SelectSeq(assignments, LAMBDA a : get_hash(a) % num = ind)

allocate(assignments, num) == [i \in 1..num |-> chunk(assignments, num, i - 1)]

(* The templates: the Resources of a template are an OrderedDict, here the *)
(* sequence of its values, each with its key as name                       *)

\* the position of the key in the OrderedDict, 0 if it is not there
IndexOf(resources, name) ==
    LET found == {i \in 1..Len(resources) : resources[i].name = name} IN
    IF found = {} THEN 0 ELSE CHOOSE i \in found : TRUE

\* OrderedDict.__setitem__: a new key goes to the end, a key that is there
\* keeps its place and takes the new value
SetItem(resources, resource) ==
    IF IndexOf(resources, resource.name) = 0 THEN Append(resources, resource)
    ELSE [resources EXCEPT ![IndexOf(resources, resource.name)] = resource]

\* OrderedDict.update with a list of pairs
RECURSIVE Update(_, _)
Update(resources, pairs) ==
    IF pairs = <<>> THEN resources
    ELSE Update(SetItem(resources, Head(pairs)), Tail(pairs))

\* the list assignment_resources that add_assignments_to_template builds
RECURSIVE assignment_resources(_, _)
assignment_resources(assignments, window) ==
    IF assignments = <<>> THEN <<>>
    ELSE LET earlier == assignment_resources(SubSeq(assignments, 1, Len(assignments) - 1), window)
             depends_on == IF window # 0 /\ Len(earlier) >= window
                           THEN earlier[Len(earlier) - window + 1].name
                           ELSE NoDependsOn IN
         Append(earlier, get_resource(assignments[Len(assignments)], depends_on))

add_assignments_to_template(resources, assignments, config) ==
    Update(resources, assignment_resources(assignments, max_concurrent_assignments(config)))

\* ChildTemplate.get_template: the Resources of the template, empty for None
ChildTemplate_get_template(assignments, config) ==
    IF assignments = <<>> THEN <<>>
    ELSE add_assignments_to_template(<<>>, assignments, config)

\* the resources a base template brings
BaseResources(n) ==
    [i \in 1..n |-> [name |-> <<"Base", i>>, Type |-> "AWS::SNS::Topic", DependsOn |-> NoDependsOn]]

\* PermissionSet.get_resource_name and get_resource, for the ones that are resources
PermissionSetResources(permission_sets) ==
    LET declared == SelectSeq(permission_sets, LAMBDA ps : ps.type = "RESOURCE") IN
    [i \in 1..Len(declared) |->
        [name |-> <<"PermSet", declared[i].n>>, Type |-> "AWS::SSO::PermissionSet",
         DependsOn |-> NoDependsOn]]

\* the nested stacks of ParentTemplate._get_template: children is the list
\* of the child templates with their stem and index, the empty ones are
\* passed over
\* a bug: a nested stack depends on the child before it, emitted or not
RECURSIVE StackResources_depending_on_the_child_before(_, _)
StackResources_depending_on_the_child_before(children, window) ==
    IF children = <<>> THEN <<>>
    ELSE LET earlier == StackResources_depending_on_the_child_before(SubSeq(children, 1, Len(children) - 1), window)
             child == children[Len(children)]
             before == children[Len(children) - 1]
             depends_on == IF window # 0 /\ Len(children) > 1
                           THEN <<before.stem, "Stack", before.index>> ELSE NoDependsOn IN
         IF child.template = <<>> THEN earlier
         ELSE Append(earlier, [name |-> <<child.stem, "Stack", child.index>>,
                               Type |-> "AWS::CloudFormation::Stack",
                               DependsOn |-> depends_on, child |-> <<child.stem, child.index>>])

RECURSIVE StackResources(_, _)
StackResources(children, window) ==
    IF children = <<>> THEN <<>>
    ELSE LET earlier == StackResources(SubSeq(children, 1, Len(children) - 1), window)
             child == children[Len(children)]
             depends_on == IF window # 0 /\ earlier # <<>>
                           THEN earlier[Len(earlier)].name ELSE NoDependsOn IN
         IF child.template = <<>> THEN earlier
         ELSE Append(earlier, [name |-> <<child.stem, "Stack", child.index>>,
                               Type |-> "AWS::CloudFormation::Stack",
                               DependsOn |-> depends_on, child |-> <<child.stem, child.index>>])

\* ParentTemplate._get_template: the Resources of the parent template
ParentTemplate_get_template(self, config, children, base_resources) ==
    LET with_permission_sets == Update(base_resources, PermissionSetResources(self.permission_sets))
        with_assignments ==
            IF self.assignments # <<>>
            THEN add_assignments_to_template(with_permission_sets, self.assignments, config)
            ELSE with_permission_sets IN
    Update(with_assignments, StackResources(children, max_concurrent_assignments(config)))

(* The planner's inputs *)

\* the assignments of keys 1..n in the order of the configuration
FirstAssignments(n) == [i \in 1..n |-> i]

\* a configuration that names the target of assignment a twice, or in an
\* OU and among the accounts: get_resources_from_config yields it twice
Twice(assignments, a) ==
    LET i == CHOOSE j \in 1..Len(assignments) : assignments[j] = a IN
    SubSeq(assignments, 1, i) \o SubSeq(assignments, i, Len(assignments))

\* the assignments of odd key
OddAssignments == SelectSeq(FirstAssignments(MaxAssignments), LAMBDA a : a % 2 = 1)

\* the assignments of even key: with two shards the first one is empty
EvenAssignments == SelectSeq(FirstAssignments(MaxAssignments), LAMBDA a : a % 2 = 0)

AssignmentLists ==
    {FirstAssignments(n) : n \in 0..MaxAssignments}
    \cup {OddAssignments, EvenAssignments, Twice(EvenAssignments, 2)}
    \cup {Twice(FirstAssignments(MaxAssignments), a) : a \in 1..(MaxWindow + 1)}

PermissionSetLists ==
    {<<>>, <<PermissionSetArn>>, <<PermissionSetArn, PermissionSetResource(1)>>}

OptionalInts(values) == {NoInt} \cup {Some(n) : n \in values}

GenerationConfigs ==
    [_max_resources_per_template : OptionalInts({0, MaxWindow, MaxAssignments}),
     _max_concurrent_assignments : OptionalInts(0..MaxWindow),
     _max_assignments_allocation : OptionalInts({MaxAssignments}),
     _num_child_stacks : OptionalInts(0..MaxChildStacks)]

\* get_resources_from_config of a configuration with the given prefix of
\* resource names, lists of keys and lists of permission sets: the targets
\* of the OUs come before the accounts, so of an assignment that is there
\* twice the first has its account from an OU
ResourceCollections(resource_name_prefix, lists, permission_set_lists) ==
    {[assignments |->
        [i \in DOMAIN keys |->
            Assignment(resource_name_prefix, keys[i],
                       IF \E j \in DOMAIN keys : j > i /\ keys[j] = keys[i] THEN "ou-1" ELSE None)],
      permission_sets |-> permission_sets] :
        keys \in lists, permission_sets \in permission_set_lists}

\* process_config: a configuration file is one item, named by the file
ConfigItems ==
    {<<[stem |-> "config", resource_collection |-> rc]>> :
        rc \in ResourceCollections("", AssignmentLists, PermissionSetLists)}

\* process_template: a template with two AssignmentGroup resources G1 and
\* G2 is two items, named by the resources
GroupItems ==
    {<<[stem |-> "G1", resource_collection |-> rc1], [stem |-> "G2", resource_collection |-> rc2]>> :
        rc1 \in ResourceCollections("G1", {FirstAssignments(MaxWindow)}, {<<>>}),
        rc2 \in ResourceCollections("G2", {FirstAssignments(MaxWindow)}, {<<>>})}

TemplateProcessInputs ==
    [base_template : 0..MaxBaseResources, items : ConfigItems \cup GroupItems]

(* The planner *)

\* the item of the loop of process_templates
resource_collection == template_process_input.items[item].resource_collection

\* ResourceCollection.num_resources
ResourceCollection_num_resources(rc) == Len(rc.assignments) + num_resources(rc.permission_sets)

\* max_stack_resources: get_max_number_of_child_stacks of every item, added up
RECURSIVE MaxStackResources(_, _)
MaxStackResources(config, items) ==
    IF items = <<>> THEN 0
    ELSE get_max_number_of_child_stacks(config, ResourceCollection_num_resources(Head(items).resource_collection))
         + MaxStackResources(config, Tail(items))

max_stack_resources == MaxStackResources(generation_config, template_process_input.items)

\* num_parent_resources that resolve_templates is called with: the
\* resources of the parent template to write so far, and max_stack_resources
num_parent_resources == Len(template_collection.parent) + max_stack_resources

\* resolve_templates: what it returns, or that it raises ValueError
ResolveTemplates(assignments, permission_sets, config, parent_resources) ==
    LET n == num_child_stacks(config)
        num_resources_to_add == Len(assignments) + num_resources(permission_sets)
        too_many_resources_for_parent ==
            num_resources_to_add + parent_resources > max_resources_per_template(config)
        too_many_permission_sets ==
            /\ num_resources(permission_sets) # 0
            /\ num_resources(permission_sets) + parent_resources > max_resources_per_template(config)
        inline == [raises |-> None, assignments |-> assignments,
                   permission_sets |-> permission_sets, child_templates |-> <<>>]
        ValueError == [raises |-> "ValueError"] IN
    IF n = NoInt \/ n = Some(0)
    THEN IF too_many_resources_for_parent \/ too_many_permission_sets THEN ValueError ELSE inline
    ELSE IF n[1] * max_resources_per_template(config) < Len(assignments) \/ too_many_permission_sets
         THEN ValueError
         ELSE [raises |-> None, assignments |-> <<>>, permission_sets |-> permission_sets,
               child_templates |-> allocate(assignments, n[1])]

resolve_templates ==
    /\ planner_pc = "resolve_templates"
    /\ LET r == ResolveTemplates(resource_collection.assignments, resource_collection.permission_sets,
                                 generation_config, num_parent_resources) IN
       IF r.raises # None
       THEN /\ planner_pc' = "raised"
            /\ UNCHANGED parent_template
       ELSE /\ planner_pc' = "get_templates"
            /\ parent_template' = r
    /\ UNCHANGED <<generation_config, template_process_input, item, template_collection, status, engine_vars, library_vars>>

\* ParentTemplate.get_templates: the child templates with their stem and
\* index i, then the parent; the children that have a template are written
ChildData(self, config, stem) ==
    [i \in 1..Len(self.child_templates) |->
        [stem |-> stem, index |-> i - 1,
         template |-> ChildTemplate_get_template(self.child_templates[i], config)]]

GetTemplates(self, config, stem, base_template) ==
    LET child_templates == ChildData(self, config, stem) IN
    [parent |-> ParentTemplate_get_template(self, config, child_templates, base_template),
     children |-> SelectSeq(child_templates, LAMBDA c : c.template # <<>>)]

\* the stacks of a template collection: 1 is the parent, 1 + j the j-th child
StackTemplate(collection, t) ==
    IF t = 1 THEN collection.parent ELSE collection.children[t - 1].template

Stacks(collection) == 1..(1 + Len(collection.children))

\* the deployment service has the resources of the templates to create; the
\* ones that are neither assignments nor nested stacks are taken as created
Undeployed(collection) ==
    [t \in Stacks(collection) |->
        [k \in 1..Len(StackTemplate(collection, t)) |->
            IF StackTemplate(collection, t)[k].Type \in {"AWS::SSO::Assignment", "AWS::CloudFormation::Stack"}
            THEN "CREATE_PENDING" ELSE "CREATE_COMPLETE"]]

\* process_templates: get_templates of the item on the parent template to
\* write so far; its parent is the parent to write, its children are added
\* to the children; after the last item the templates are written
get_templates ==
    /\ planner_pc = "get_templates"
    /\ LET written == GetTemplates(parent_template, generation_config,
                                   template_process_input.items[item].stem, template_collection.parent) IN
       template_collection' = [parent |-> written.parent,
                               children |-> template_collection.children \o written.children]
    /\ IF item < Len(template_process_input.items)
       THEN /\ item' = item + 1
            /\ planner_pc' = "resolve_templates"
            /\ UNCHANGED status
       ELSE /\ planner_pc' = "deploy"
            /\ status' = Undeployed(template_collection')
            /\ UNCHANGED item
    /\ UNCHANGED <<generation_config, template_process_input, parent_template, engine_vars, library_vars>>

(* The deployment service *)

\* the stack of the child template that nested stack resource r names
ChildStack(collection, r) ==
    1 + CHOOSE j \in 1..Len(collection.children) :
            <<collection.children[j].stem, collection.children[j].index>> = r.child

\* the nested stack resource of the parent that creates stack t
StackResourceOf(collection, t) ==
    CHOOSE k \in 1..Len(collection.parent) :
        /\ collection.parent[k].Type = "AWS::CloudFormation::Stack"
        /\ collection.parent[k].child = <<collection.children[t - 1].stem, collection.children[t - 1].index>>

\* the resource named in the DependsOn of resource k of stack t has completed
DependencyCompleted(t, k) ==
    LET template == StackTemplate(template_collection, t)
        on == IndexOf(template, template[k].DependsOn) IN
    IF template[k].DependsOn = NoDependsOn THEN TRUE
    ELSE on # 0 /\ status[t][on] = "CREATE_COMPLETE"

\* stack t is being created
StackInProgress(t) ==
    IF t = 1 THEN TRUE
    ELSE status[1][StackResourceOf(template_collection, t)] = "CREATE_IN_PROGRESS"

\* the service starts to create resource k of stack t
StartResource(t, k) ==
    /\ planner_pc = "deploy"
    /\ status[t][k] = "CREATE_PENDING"
    /\ StackInProgress(t)
    /\ DependencyCompleted(t, k)
    /\ status' = [status EXCEPT ![t][k] = "CREATE_IN_PROGRESS"]
    /\ UNCHANGED <<generation_config, template_process_input, item, planner_pc, parent_template, template_collection, engine_vars, library_vars>>

\* resource k of stack t is created; a nested stack is, once its resources are
CompleteResource(t, k) ==
    /\ planner_pc = "deploy"
    /\ status[t][k] = "CREATE_IN_PROGRESS"
    /\ LET r == StackTemplate(template_collection, t)[k] IN
       r.Type = "AWS::CloudFormation::Stack" =>
           \A j \in DOMAIN status[ChildStack(template_collection, r)] :
               status[ChildStack(template_collection, r)][j] = "CREATE_COMPLETE"
    /\ status' = [status EXCEPT ![t][k] = "CREATE_COMPLETE"]
    /\ UNCHANGED <<generation_config, template_process_input, item, planner_pc, parent_template, template_collection, engine_vars, library_vars>>

----------------------------------------------------------------------------
(* The specification *)

\* a token file another tool left in the cache: it names no expiresAt
SeedToken ==
    [startUrl |-> "https://u2", region |-> "us-east-1",
     accessToken |-> <<"accessToken", "seed", "seed">>]

\* the cache directory as the flows find it
SeedCache == CacheSet(<<>>, _token_cache_key("https://u2", None), SeedToken)

\* no template is planned
PlannerIdle ==
    /\ generation_config = Nothing
    /\ template_process_input = Nothing
    /\ item = 0
    /\ planner_pc = "idle"
    /\ parent_template = Nothing
    /\ template_collection = Nothing
    /\ status = <<>>

Init ==
    /\ PlannerIdle
    /\ LibraryIdle
    /\ now = 0
    /\ cache = SeedCache
    /\ pc = [f \in Flows |-> "idle"]
    /\ args = [f \in Flows |-> Nothing]
    /\ registration = [f \in Flows |-> Nothing]
    /\ authorization = [f \in Flows |-> Nothing]
    /\ interval = [f \in Flows |-> 0]
    /\ token = [f \in Flows |-> Nothing]
    /\ ret = [f \in Flows |-> Nothing]
    /\ err = [f \in Flows |-> None]
    /\ log = [f \in Flows |-> <<>>]

\* the process of a flow that has returned or raised ends: what it held is gone
exit(f) ==
    /\ pc[f] \in {"done", "raised"}
    /\ Goto(f, "exited")
    /\ args' = [args EXCEPT ![f] = Nothing]
    /\ registration' = [registration EXCEPT ![f] = Nothing]
    /\ authorization' = [authorization EXCEPT ![f] = Nothing]
    /\ interval' = [interval EXCEPT ![f] = 0]
    /\ token' = [token EXCEPT ![f] = Nothing]
    /\ ret' = [ret EXCEPT ![f] = Nothing]
    /\ err' = [err EXCEPT ![f] = None]
    /\ log' = [log EXCEPT ![f] = <<>>]
    /\ UNCHANGED <<now, cache>>

\* flow f1 runs first, and the others once it has ended
Turn(f) == f = "f1" \/ \A g \in Flows \ {f} : pc[g] = "exited"

\* the steps of a fetch_token call
FetchStep(f, budget) ==
    \/ _token(f)
    \/ _registration(f)
    \/ _register_client(f)
    \/ _authorize_client(f)
    \/ _create_token_attempt(f, budget)
    \/ on_pending_authorization(f)
    \/ _sleep(f)
    \/ _cache_token(f)
    \/ exit(f)

\* the steps of a token provider's refresh
RefreshStep(f) ==
    \/ _refresher(f)
    \/ _attempt_create_token(f)
    \/ save_token(f)

\* the sessions flow f is called for when the flows run one after another
SessionsOf(f) == IF f = "f1" THEN EarlierSessions ELSE Sessions

\* and the answers without a token the service gives it
BudgetOf(f) == IF f = "f1" THEN MaxEarlierAttempts ELSE MaxAttempts

\* the flows run one after another, f1 first, and time passes between them
Next ==
    \/ UNCHANGED <<planner_vars, library_vars>> /\ \E f \in Flows : Turn(f) /\ fetch_token(f, SessionsOf(f), BOOLEAN)
    \/ UNCHANGED <<planner_vars, library_vars>> /\ \E f \in Flows : Turn(f) /\ load_token(f, SessionsOf(f))
    \/ UNCHANGED <<planner_vars, library_vars>> /\ \E f \in Flows : Turn(f) /\ pop_token_from_cache(f, SessionsOf(f))
    \/ UNCHANGED <<planner_vars, library_vars>> /\ \E f \in Flows : Turn(f) /\ logout(f, SessionsOf(f))
    \/ UNCHANGED <<planner_vars, library_vars>> /\ \E f \in Flows : FetchStep(f, BudgetOf(f))
    \/ UNCHANGED <<planner_vars, library_vars>> /\ \E f \in Flows : RefreshStep(f)
    \/ UNCHANGED <<planner_vars, library_vars>> /\ (\A f \in Flows : pc[f] \in {"idle", "exited"}) /\ Tick

Spec == Init /\ [][Next]_vars

\* the interactive flows of one session run at the same time
ConcurrentNext ==
    \/ UNCHANGED <<planner_vars, library_vars>> /\ \E f \in Flows : fetch_token(f, SharedSessions, {TRUE})
    \/ UNCHANGED <<planner_vars, library_vars>> /\ \E f \in Flows : FetchStep(f, MaxConcurrentAttempts)

ConcurrentSpec == Init /\ [][ConcurrentNext]_vars

\* the planner: aws-sso-util cfn on one configuration file, and the
\* deployment of the templates it writes
EngineIdle ==
    /\ now = 0
    /\ cache = <<>>
    /\ pc = [f \in Flows |-> "exited"]
    /\ args = [f \in Flows |-> Nothing]
    /\ registration = [f \in Flows |-> Nothing]
    /\ authorization = [f \in Flows |-> Nothing]
    /\ interval = [f \in Flows |-> 0]
    /\ token = [f \in Flows |-> Nothing]
    /\ ret = [f \in Flows |-> Nothing]
    /\ err = [f \in Flows |-> None]
    /\ log = [f \in Flows |-> <<>>]

PlannerInit ==
    /\ EngineIdle
    /\ LibraryIdle
    /\ generation_config \in GenerationConfigs
    /\ template_process_input \in TemplateProcessInputs
    /\ item = 1
    /\ planner_pc = "resolve_templates"
    /\ parent_template = Nothing
    /\ template_collection = [parent |-> BaseResources(template_process_input.base_template), children |-> <<>>]
    /\ status = <<>>

PlannerNext ==
    \/ resolve_templates
    \/ get_templates
    \/ \E t \in DOMAIN status : \E k \in DOMAIN status[t] : StartResource(t, k)
    \/ \E t \in DOMAIN status : \E k \in DOMAIN status[t] : CompleteResource(t, k)

PlannerSpec == PlannerInit /\ [][PlannerNext]_vars

----------------------------------------------------------------------------
(* Part 3, the library: list_assignments and the lookups *)

\* python's None and False as the account to leave out
NoAccount == "None"

\* recursive=True, as a depth that never runs out
Recursive == -1

\* the organization the Organizations service describes: the accounts of
\* list_accounts, and the accounts and the child OUs directly in each parent,
\* each in the order of the service's pages
Organization ==
    [list_accounts |-> <<"a1", "a2", "a3", "a4">>,
     accounts |-> [ou \in {"r-1", "ou-1", "ou-2", "ou-3"} |->
                      CASE ou = "r-1" -> <<"a1">>
                        [] ou = "ou-1" -> <<"a2">>
                        [] ou = "ou-2" -> <<"a4", "a3">>
                        [] ou = "ou-3" -> <<>>],
     children |-> [ou \in {"r-1", "ou-1", "ou-2", "ou-3"} |->
                      CASE ou = "r-1" -> <<"ou-3", "ou-1">>
                        [] ou = "ou-1" -> <<"ou-2">>
                        [] ou = "ou-2" -> <<>>
                        [] ou = "ou-3" -> <<>>]]

\* cache[key] = value
SetCache(cached, key, value) ==
    [k \in DOMAIN cached \cup {key} |-> IF k = key THEN value ELSE cached[k]]

\* the cache entry is replaced by the values, under the key of the accounts
_init_cache_one_key(cached, key, values) ==
    SetCache(cached, <<key[1], "#accounts">>, values)

\* _init_cache(cache, key, list) and then cache[key].extend(values)
_init_cache(cached, key, values) ==
    SetCache(cached, key, (IF key \in DOMAIN cached THEN cached[key] ELSE <<>>) \o values)

\* the management account is left out at the top of the traversal only
org_mgmt_acct_at_the_top(exclude_org_mgmt_acct) ==
    IF exclude_org_mgmt_acct = "True" THEN service.MasterAccountId ELSE NoAccount

\* the account lookup_accounts_for_ou leaves out: for True the management
\* account describe_organization gives, for False none, else the account
\* id it is given, which is how the traversal of a child OU gets it
org_mgmt_acct_of(exclude_org_mgmt_acct) ==
    IF exclude_org_mgmt_acct = "True" THEN service.MasterAccountId
    ELSE IF exclude_org_mgmt_acct = "False" THEN NoAccount
    ELSE exclude_org_mgmt_acct

\* lookup_accounts_for_ou, run to its end: the cache it leaves, the calls it
\* makes to the service and the accounts it yields, in order.
\* exclude_org_mgmt_acct is "True", "False" or an account id
RECURSIVE lookup_accounts_for_ou(_, _, _, _, _)
lookup_accounts_for_ou(cached, ou, recursive, refresh, exclude_org_mgmt_acct) ==
    LET describe == exclude_org_mgmt_acct = "True"
        org_mgmt_acct == org_mgmt_acct_of(exclude_org_mgmt_acct)
        ou_children_key == <<ou, "#children">>
        ou_accounts_key == <<ou, "#accounts">>
        list_accounts == refresh \/ ou_accounts_key \notin DOMAIN cached
        accounts == IF list_accounts THEN Organization.accounts[ou] ELSE cached[ou_accounts_key]
        direct ==
            [cache |-> IF list_accounts THEN _init_cache(cached, ou_accounts_key, accounts) ELSE cached,
             calls |-> (IF describe THEN << <<"describe_organization">> >> ELSE <<>>)
                       \o (IF list_accounts THEN << <<"list_accounts_for_parent", ou>> >> ELSE <<>>),
             accounts |-> SelectSeq(accounts, LAMBDA account : account # org_mgmt_acct)]
        child_recursive == IF recursive = Recursive THEN Recursive ELSE recursive - 1
        list_children == refresh \/ ou_children_key \notin DOMAIN cached
        sub_ous == IF list_children THEN Organization.children[ou] ELSE cached[ou_children_key]
        listed ==
            IF list_children
            THEN [direct EXCEPT !.cache = _init_cache(direct.cache, ou_children_key, sub_ous),
                                !.calls = Append(direct.calls, <<"list_organizational_units_for_parent", ou>>)]
            ELSE direct
        RECURSIVE visit(_, _)
        visit(done, i) ==
            IF i > Len(sub_ous) THEN done
            ELSE LET sub == lookup_accounts_for_ou(done.cache, sub_ous[i], child_recursive, refresh, org_mgmt_acct)
                 IN visit([cache |-> sub.cache,
                           calls |-> done.calls \o sub.calls,
                           accounts |-> done.accounts \o sub.accounts], i + 1)
    IN IF recursive = 0 THEN direct ELSE visit(listed, 1)

\* what the SSO admin service holds: the permission sets provisioned to each
\* account, and the assignments of each account and permission set as
\* <<principal type, principal id>>, each in the order of the service's pages
SSOAdmin ==
    [list_permission_sets_provisioned_to_account |->
        [account \in {"a1", "a2", "a3", "a4"} |->
            CASE account = "a1" -> <<"ps-2", "ps-1">>
              [] account = "a2" -> <<"ps-2">>
              [] account = "a3" -> <<"ps-1">>
              [] account = "a4" -> <<>>],
     list_account_assignments |->
        [account \in {"a1", "a2", "a3", "a4"} |-> [permission_set \in {"ps-1", "ps-2"} |->
            CASE account = "a1" /\ permission_set = "ps-1" -> << <<"USER", "u1">>, <<"GROUP", "g1">> >>
              [] account = "a1" /\ permission_set = "ps-2" -> << <<"GROUP", "g1">> >>
              [] account = "a2" /\ permission_set = "ps-2" -> << <<"GROUP", "g2">>, <<"USER", "u1">> >>
              [] account = "a3" /\ permission_set = "ps-1" -> << <<"GROUP", "g1">> >>
              [] OTHER -> <<>>]]]

\* a filter function, as the keys it returns True for
Accepting(keys) == <<keys>>

\* no filter function
NoFilter == <<>>

\* the calls of list_assignments: lists of principals, permission sets and
\* targets as _process_principal, _process_permission_set and _process_target
\* leave them (an empty list is no list), and the filters
Contexts ==
    [principal : {<<>>, << <<None, "g1">> >>, << <<"GROUP", "g1">> >>, << <<"USER", "g1">>, <<None, "u1">> >>},
     principal_filter : {NoFilter, Accepting({<<"GROUP", "g1">>, <<"GROUP", "g2">>})},
     permission_set : {<<>>, <<"ps-1">>, <<"ps-1", "ps-2">>},
     permission_set_filter : {NoFilter, Accepting({"ps-1"})},
     target : {<<>>, << <<"AWS_ACCOUNT", "a2">> >>, << <<"AWS_OU", "ou-1">> >>,
               << <<"AWS_ACCOUNT", "a3">>, <<"AWS_OU", "ou-1">>, <<"AWS_ACCOUNT", "a1">> >>},
     target_filter : {NoFilter, Accepting({"a1", "a2"})},
     ou_recursive : BOOLEAN]

\* _filter: the function is called once for a key and its answer kept in
\* filter_cache, which gives the function's answer every time
_filter(key, func) == func = NoFilter \/ key \in func[1]

\* itertools.chain(*iterables)
RECURSIVE chain(_)
chain(iterables) ==
    IF iterables = <<>> THEN <<>> ELSE Head(iterables) \o chain(Tail(iterables))

\* the targets _get_target_iterator(context)() yields, as <<type, id>>
target_iterator(ctx) ==
    LET _get_account_iterator(target) ==
            IF _filter(target[2], ctx.target_filter) THEN <<target>> ELSE <<>>
        _get_ou_iterator(target) ==
            LET accounts == lookup_accounts_for_ou(<<>>, target[2], IF ctx.ou_recursive THEN Recursive ELSE 0,
                                                   FALSE, "False").accounts
            IN [i \in DOMAIN accounts |-> <<"AWS_ACCOUNT", accounts[i]>>]
        _get_single_target_iterator(target) ==
            IF target[1] = "AWS_ACCOUNT" THEN _get_account_iterator(target) ELSE _get_ou_iterator(target)
        _get_all_accounts_iterator ==
            LET accounts == SelectSeq(Organization.list_accounts, LAMBDA account_id : _filter(account_id, ctx.target_filter))
            IN [i \in DOMAIN accounts |-> <<"AWS_ACCOUNT", accounts[i]>>]
    IN IF ctx.target # <<>>
       THEN chain([i \in DOMAIN ctx.target |-> _get_single_target_iterator(ctx.target[i])])
       ELSE _get_all_accounts_iterator

\* the permission set ARNs _get_permission_set_iterator(context)(*target) yields
permission_set_iterator(ctx, target) ==
    LET provisioned == SSOAdmin.list_permission_sets_provisioned_to_account[target[2]]
    IN SelectSeq(IF ctx.permission_set # <<>> THEN ctx.permission_set ELSE provisioned,
                 LAMBDA permission_set_arn : _filter(permission_set_arn, ctx.permission_set_filter))

\* the principals of the list, whether they are assigned or not
principal_iterator_of_the_list(ctx, target, permission_set_arn) ==
    IF ctx.principal # <<>> THEN ctx.principal
    ELSE SSOAdmin.list_account_assignments[target[2]][permission_set_arn]

\* the principals _get_principal_iterator(context)(*target, *permission_set)
\* yields, as <<type, id>>
principal_iterator(ctx, target, permission_set_arn) ==
    LET found(assignment) ==
            \E i \in DOMAIN ctx.principal :
                LET principal == ctx.principal[i]
                    type_matches == principal[1] = None \/ principal[1] # assignment[1]
                IN type_matches /\ principal[2] = assignment[2]
    IN SelectSeq(SSOAdmin.list_account_assignments[target[2]][permission_set_arn],
                 LAMBDA assignment : /\ ctx.principal # <<>> => found(assignment)
                                     /\ _filter(assignment, ctx.principal_filter))

\* one Assignment
Assignment_(principal, permission_set_arn, target) ==
    [principal_type |-> principal[1], principal_id |-> principal[2],
     permission_set_arn |-> permission_set_arn,
     target_type |-> target[1], target_id |-> target[2]]

\* the Assignments with the permission sets in the outer loop
assignments_by_permission_set(ctx) ==
    LET targets == target_iterator(ctx)
        permission_sets == <<"ps-1", "ps-2">>
        of_target(permission_set_arn, target) ==
            LET principals == principal_iterator(ctx, target, permission_set_arn)
            IN IF \E k \in DOMAIN permission_set_iterator(ctx, target) :
                      permission_set_iterator(ctx, target)[k] = permission_set_arn
               THEN [i \in DOMAIN principals |-> Assignment_(principals[i], permission_set_arn, target)]
               ELSE <<>>
    IN chain([k \in DOMAIN permission_sets |->
                 chain([i \in DOMAIN targets |-> of_target(permission_sets[k], targets[i])])])

\* the Assignments the generator of _list_assignments yields, in order
assignments_of(ctx) ==
    LET targets == target_iterator(ctx)
        of_permission_set(target, permission_set_arn) ==
            LET principals == principal_iterator(ctx, target, permission_set_arn)
            IN [i \in DOMAIN principals |-> Assignment_(principals[i], permission_set_arn, target)]
        of_target(target) ==
            LET permission_sets == permission_set_iterator(ctx, target)
            IN chain([i \in DOMAIN permission_sets |-> of_permission_set(target, permission_sets[i])])
    IN chain([i \in DOMAIN targets |-> of_target(targets[i])])

\* next() of the generator list_assignments returned: it yields its next
\* Assignment, or it ends
_list_assignments ==
    /\ list_pc = "iterating"
    /\ \/ /\ Len(yielded) < Len(assignments_of(context))
          /\ yielded' = Append(yielded, assignments_of(context)[Len(yielded) + 1])
          /\ UNCHANGED list_pc
       \/ /\ Len(yielded) = Len(assignments_of(context))
          /\ list_pc' = "done"
          /\ UNCHANGED yielded
    /\ UNCHANGED <<context, lookup_vars, engine_vars, planner_vars, config_vars>>

\* list_assignments on one configuration
ListInit ==
    /\ EngineIdle
    /\ PlannerIdle
    /\ ConfigIdle
    /\ context \in Contexts
    /\ list_pc = "iterating"
    /\ yielded = <<>>
    /\ service = Nothing
    /\ lookup_cache = <<>>
    /\ service_calls = <<>>
    /\ lookup_result = Nothing
    /\ ids = Nothing

ListNext == _list_assignments

ListSpec == ListInit /\ [][ListNext]_vars

\* the lookups by id and by name. What the identity store, the SSO instance
\* and the organization hold, by kind, in the order the service lists it
Directory ==
    [group |-> << [Id |-> "g1", Name |-> "Admins"] >>,
     user |-> << [Id |-> "u1", Name |-> "alice"] >>,
     ps |-> << [Id |-> "ps-1", Name |-> "ReadOnly"], [Id |-> "ps-2", Name |-> "Admin"] >>,
     account |-> << [Id |-> "a1", Name |-> "prod"], [Id |-> "a2", Name |-> "dev"] >>]

Kinds == DOMAIN Directory

\* the identifiers and the names the lookups are called with: those of the
\* directory, and one of each kind the service does not know
LookupIds == [group |-> {"g1", "g9"}, user |-> {"u1", "u9"}, ps |-> {"ps-1", "ps-9"},
              account |-> {"a2", "a9"}]

LookupNames == [group |-> {"Admins", "Nobody"}, user |-> {"alice", "nobody"},
                ps |-> {"Admin", "NoAccess"}, account |-> {"dev", "nowhere"}]

\* LookupError(message)
LookupError(message) == [LookupError |-> message]

\* isinstance(value, LookupError)
IsLookupError(value) == "LookupError" \in DOMAIN value

\* a return and a raise of a call, as lookup_result holds it after the call
Returned(call, value) == [call |-> call, outcome |-> "return", value |-> value]

Raised(call, error) == [call |-> call, outcome |-> "raise", value |-> error]

\* the cache keys group#id#<id>, group#name#<name> and those of the other kinds
cache_key_id(kind, id) == <<kind, "#id#", id>>

cache_key_name(kind, name) == <<kind, "#name#", name>>

\* a by-id lookup that raises for an unknown identifier and caches nothing
lookup_by_id_without_cached_error(kind, id) ==
    LET call == <<"lookup_by_id", kind, id>>
        key == cache_key_id(kind, id)
        described == SelectSeq(Directory[kind], LAMBDA resource : resource.Id = id)
    IN /\ lookup_result' =
              IF key \in DOMAIN lookup_cache THEN Returned(call, lookup_cache[key])
              ELSE IF described = <<>> THEN Raised(call, LookupError(<<"ResourceNotFoundException", id>>))
              ELSE Returned(call, described[1])
       /\ service_calls' = IF key \in DOMAIN lookup_cache THEN <<>> ELSE << <<"describe", kind, id>> >>
       /\ lookup_cache' =
              IF key \in DOMAIN lookup_cache \/ described = <<>> THEN lookup_cache
              ELSE SetCache(SetCache(lookup_cache, key, described[1]),
                            cache_key_name(kind, described[1].Name), described[1])
       /\ UNCHANGED <<service, ids, list_vars, engine_vars, planner_vars, config_vars>>

\* lookup_group_by_id, lookup_user_by_id, lookup_permission_set_by_id and
\* lookup_account_by_id with the caller's cache; the Ids object is resolved
lookup_by_id(kind, id) ==
    LET call == <<"lookup_by_id", kind, id>>
        key == cache_key_id(kind, id)
        described == SelectSeq(Directory[kind], LAMBDA resource : resource.Id = id)
    IN /\ lookup_result' =
              IF key \in DOMAIN lookup_cache
              THEN IF IsLookupError(lookup_cache[key]) THEN Raised(call, lookup_cache[key]) ELSE Returned(call, lookup_cache[key])
              ELSE IF described = <<>> THEN Raised(call, LookupError(<<"ResourceNotFoundException", id>>))
              ELSE Returned(call, described[1])
       /\ service_calls' = IF key \in DOMAIN lookup_cache THEN <<>> ELSE << <<"describe", kind, id>> >>
       /\ lookup_cache' =
              IF key \in DOMAIN lookup_cache THEN lookup_cache
              ELSE IF described = <<>> THEN SetCache(lookup_cache, key, LookupError(<<"ResourceNotFoundException", id>>))
              ELSE SetCache(SetCache(lookup_cache, key, described[1]),
                            cache_key_name(kind, described[1].Name), described[1])
       /\ UNCHANGED <<service, ids, list_vars, engine_vars, planner_vars, config_vars>>

\* lookup_group_by_name and lookup_user_by_name, which ask the identity store
\* for the name, and lookup_permission_set_by_name and lookup_account_by_name,
\* which go through the service's list and cache every entry they see
lookup_by_name(kind, name) ==
    LET call == <<"lookup_by_name", kind, name>>
        key == cache_key_name(kind, name)
        found == SelectSeq(Directory[kind], LAMBDA resource : resource.Name = name)
        seen == IF kind \in {"group", "user"} THEN found ELSE Directory[kind]
        RECURSIVE cached(_)
        cached(n) ==
            IF n = 0 THEN lookup_cache
            ELSE SetCache(SetCache(cached(n - 1), cache_key_id(kind, seen[n].Id), seen[n]),
                          cache_key_name(kind, seen[n].Name), seen[n])
        error ==
            IF found = <<>> THEN LookupError(<<"No", kind, "named", name, "found">>)
            ELSE LookupError(<<Len(found), kind, "named", name, "found">>)
        raises == Len(found) # 1
    IN /\ lookup_result' =
              IF key \in DOMAIN lookup_cache
              THEN IF IsLookupError(lookup_cache[key]) THEN Raised(call, lookup_cache[key]) ELSE Returned(call, lookup_cache[key])
              ELSE IF raises THEN Raised(call, error) ELSE Returned(call, found[1])
       /\ service_calls' = IF key \in DOMAIN lookup_cache THEN <<>> ELSE << <<"list", kind, name>> >>
       /\ lookup_cache' =
              IF key \in DOMAIN lookup_cache THEN lookup_cache
              ELSE IF raises
              THEN SetCache(IF kind \in {"group", "user"} THEN lookup_cache ELSE cached(Len(seen)), key, error)
              ELSE cached(Len(seen))
       /\ UNCHANGED <<service, ids, list_vars, engine_vars, planner_vars, config_vars>>

\* a caller makes lookups one after another with one cache, empty at first
LookupInit ==
    /\ EngineIdle
    /\ PlannerIdle
    /\ LibraryIdle

LookupNext ==
    \/ \E kind \in Kinds : \E id \in LookupIds[kind] : lookup_by_id(kind, id)
    \/ \E kind \in Kinds : \E name \in LookupNames[kind] : lookup_by_name(kind, name)

LookupSpec == LookupInit /\ [][LookupNext]_vars

\* the bounds of the traversals: the entries a cached list may get to have
\* when it is refreshed again and again
MaxCached == 3

\* how many accounts a caller takes before it abandons an iteration
Taken == {0, 1, 2}

\* the depths a caller passes as recursive: False, 1 and True
Depths == {0, 1, Recursive}

\* what the services hold apart from the organization and the directory: the
\* management account of the organization and the SSO instances
Instance(instance_arn, identity_store_id) ==
    [InstanceArn |-> instance_arn, IdentityStoreId |-> identity_store_id]

Services ==
    [MasterAccountId : {"a1", "a3"},
     Instances : {<<>>,
                  <<Instance("arn:aws:sso:::instance/ssoins-1", "d-1")>>,
                  <<Instance("arn:aws:sso:::instance/ssoins-1", "d-1"),
                    Instance("arn:aws:sso:::instance/ssoins-2", "d-2")>>,
                  <<Instance("arn:aws:sso:::instance/ssoins-1", "d-1"),
                    Instance("arn:aws:sso:::instance/ssoins-2", "d-2"),
                    Instance("arn:aws:sso:::instance/ssoins-3", "d-1")>>}]

\* a caller iterates lookup_accounts_for_ou to its end, with its cache
LookupAccountsForOu(ou, recursive, refresh, exclude_org_mgmt_acct) ==
    \E done \in {lookup_accounts_for_ou(lookup_cache, ou, recursive, refresh, exclude_org_mgmt_acct)} :
        /\ \A key \in DOMAIN done.cache : Len(done.cache[key]) <= MaxCached
        /\ lookup_cache' = done.cache
        /\ service_calls' = done.calls
        /\ lookup_result' = Returned(<<"lookup_accounts_for_ou", ou, recursive, refresh, exclude_org_mgmt_acct>>,
                                      done.accounts)
        /\ UNCHANGED <<service, ids, list_vars, engine_vars, planner_vars, config_vars>>

\* a caller goes through OUs of one organization with one cache, empty at first
OuInit ==
    /\ EngineIdle
    /\ PlannerIdle
    /\ ConfigIdle
    /\ context = Nothing /\ list_pc = "idle" /\ yielded = <<>>
    /\ service \in {s \in Services : Len(s.Instances) = 1}
    /\ lookup_cache = <<>>
    /\ service_calls = <<>>
    /\ lookup_result = Nothing
    /\ ids = Nothing

OuNext ==
    \E ou \in DOMAIN Organization.accounts : \E recursive \in Depths :
        \E refresh \in BOOLEAN : \E exclude_org_mgmt_acct \in {"False", "True"} :
            LookupAccountsForOu(ou, recursive, refresh, exclude_org_mgmt_acct)

OuSpec == OuInit /\ [][OuNext]_vars

\* lookup_accounts_for_ou is a generator: what it does between two next() of
\* its caller. A step is a call to the service, the _init_cache of a key,
\* the append of a value to the list of a key, or the yield of an account
Step(op, key, value) == [op |-> op, key |-> key, value |-> value]

\* the cache after the steps of a generator
RECURSIVE run_steps(_, _)
run_steps(cached, steps) ==
    IF steps = <<>> THEN cached
    ELSE LET step == Head(steps)
             after ==
                 CASE step.op = "_init_cache" ->
                          IF step.key \in DOMAIN cached THEN cached ELSE SetCache(cached, step.key, <<>>)
                   [] step.op = "append" -> SetCache(cached, step.key, Append(cached[step.key], step.value))
                   [] OTHER -> cached
         IN run_steps(after, Tail(steps))

\* the steps of lookup_accounts_for_ou in their order, when the caller
\* iterates it to its end; the service answers each list call with one page
RECURSIVE lookup_accounts_for_ou_steps(_, _, _, _, _)
lookup_accounts_for_ou_steps(cached, ou, recursive, refresh, exclude_org_mgmt_acct) ==
    LET org_mgmt_acct == org_mgmt_acct_of(exclude_org_mgmt_acct)
        ou_children_key == <<ou, "#children">>
        ou_accounts_key == <<ou, "#accounts">>
        describe ==
            IF exclude_org_mgmt_acct = "True"
            THEN <<Step("call", <<"describe_organization">>, "None")>> ELSE <<>>
        yield(account) == IF account = org_mgmt_acct THEN <<>> ELSE <<Step("yield", ou_accounts_key, account)>>
        direct ==
            IF refresh \/ ou_accounts_key \notin DOMAIN cached
            THEN <<Step("call", <<"list_accounts_for_parent", ou>>, "None"),
                   Step("_init_cache", ou_accounts_key, "list")>>
                 \o chain([i \in DOMAIN Organization.accounts[ou] |->
                              <<Step("append", ou_accounts_key, Organization.accounts[ou][i])>>
                              \o yield(Organization.accounts[ou][i])])
            ELSE chain([i \in DOMAIN cached[ou_accounts_key] |-> yield(cached[ou_accounts_key][i])])
        child_recursive == IF recursive = Recursive THEN Recursive ELSE recursive - 1
        list_children == refresh \/ ou_children_key \notin DOMAIN cached
        sub_ous == IF list_children THEN Organization.children[ou] ELSE cached[ou_children_key]
        listed ==
            IF list_children
            THEN <<Step("call", <<"list_organizational_units_for_parent", ou>>, "None"),
                   Step("_init_cache", ou_children_key, "list")>>
            ELSE <<>>
        RECURSIVE visit(_, _)
        visit(steps, i) ==
            IF i > Len(sub_ous) THEN steps
            ELSE LET appended ==
                         steps \o (IF list_children
                                   THEN <<Step("append", ou_children_key, sub_ous[i])>> ELSE <<>>)
                 IN visit(appended
                          \o lookup_accounts_for_ou_steps(run_steps(cached, appended), sub_ous[i],
                                                          child_recursive, refresh, org_mgmt_acct),
                          i + 1)
    IN describe \o direct \o (IF recursive = 0 THEN <<>> ELSE visit(listed, 1))

\* the steps a generator has taken when its caller has asked for n accounts
\* and then drops it: none before the first next(), those up to the n-th
\* yield, or all of them when the generator ends before
RECURSIVE islice(_, _)
islice(steps, n) ==
    IF n = 0 \/ steps = <<>> THEN <<>>
    ELSE <<Head(steps)>> \o islice(Tail(steps), IF Head(steps).op = "yield" THEN n - 1 ELSE n)

StepsOf(steps, op) == SelectSeq(steps, LAMBDA step : step.op = op)

\* a caller takes n accounts from lookup_accounts_for_ou, with its cache,
\* and abandons the iteration
AbandonLookupAccountsForOu(ou, recursive, refresh, exclude_org_mgmt_acct, n) ==
    \E steps \in {islice(lookup_accounts_for_ou_steps(lookup_cache, ou, recursive, refresh,
                                                      exclude_org_mgmt_acct), n)} :
      \E after \in {run_steps(lookup_cache, steps)} :
        /\ \A key \in DOMAIN after : Len(after[key]) <= MaxCached
        /\ lookup_cache' = after
        /\ service_calls' = [i \in DOMAIN StepsOf(steps, "call") |-> StepsOf(steps, "call")[i].key]
        /\ lookup_result' = Returned(<<"lookup_accounts_for_ou", ou, recursive, refresh, exclude_org_mgmt_acct>>,
                                      [i \in DOMAIN StepsOf(steps, "yield") |-> StepsOf(steps, "yield")[i].value])
        /\ UNCHANGED <<service, ids, list_vars, engine_vars, planner_vars, config_vars>>

\* the OUs the callers of one cache go through: an OU and its child
IteratedOus == {"ou-1", "ou-2"}

\* the callers of one cache: some iterate to the end, some abandon
OuIterNext ==
    \E ou \in IteratedOus : \E recursive \in Depths :
        \E refresh \in BOOLEAN : \E exclude_org_mgmt_acct \in {"False", "True"} :
            \/ LookupAccountsForOu(ou, recursive, refresh, exclude_org_mgmt_acct)
            \/ \E n \in Taken :
                   AbandonLookupAccountsForOu(ou, recursive, refresh, exclude_org_mgmt_acct, n)

OuIterSpec == OuInit /\ [][OuIterNext]_vars

\* the Ids object. Ids.__init__ with an instance ARN or id, an identity
\* store id and a cache, each given or None; cache is the caller's dict,
\* which the object keeps only when neither identifier is given
Ids__init__(instance_arn, identity_store_id, cache_given, cached) ==
    [_instance_arn |->
        CASE instance_arn = "ssoins-1" -> "arn:aws:sso:::instance/ssoins-1"
          [] instance_arn = "ssoins-2" -> "arn:aws:sso:::instance/ssoins-2"
          [] OTHER -> instance_arn,
     _instance_arn_specified |-> instance_arn # None,
     _identity_store_id |-> identity_store_id,
     _identity_store_id_specified |-> identity_store_id # None,
     _cache |-> cache_given /\ instance_arn = None /\ identity_store_id = None,
     _cache_load_attempted |-> FALSE,
     cache |-> cached]

\* the key of the session in the cache of an Ids object
CACHE_KEY == "aws-sso-util-ids-profile"

\* a lookup that takes the first instance of the service whatever there is
_do_lookup_of_the_first_instance(self) ==
    LET instances == service.Instances
    IN IF Len(instances) = 0 THEN Raised(<<"_do_lookup">>, LookupError([message |-> "No instance found", arns |-> <<>>]))
       ELSE Returned(<<"_do_lookup">>, instances[1])

\* Ids._do_lookup as far as the instance it finds or the error it raises,
\* with the ARNs its message lists
_do_lookup(self) ==
    LET instances == service.Instances
        arns(found) == [i \in DOMAIN found |-> found[i].InstanceArn]
        matching == SelectSeq(instances, LAMBDA instance : self._instance_arn = instance.InstanceArn)
        found_instances ==
            SelectSeq(instances, LAMBDA instance : self._identity_store_id = instance.IdentityStoreId)
        call == <<"_do_lookup">>
    IN IF Len(instances) = 0 THEN Raised(call, LookupError([message |-> "No instance found", arns |-> <<>>]))
       ELSE IF self._instance_arn_specified
       THEN IF matching = <<>>
            THEN Raised(call, LookupError([message |-> "No instance found matching SSO instance", arns |-> <<>>]))
            ELSE Returned(call, matching[1])
       ELSE IF self._identity_store_id_specified
       THEN IF found_instances = <<>>
            THEN Raised(call, LookupError([message |-> "No instance found matching identity store id", arns |-> <<>>]))
            ELSE IF Len(found_instances) > 1
            THEN Raised(call, LookupError([message |-> "SSO instances found matching identity store id, please specify SSO instance ARN",
                                            arns |-> arns(found_instances)]))
            ELSE Returned(call, found_instances[1])
       ELSE IF Len(instances) > 1
       THEN Raised(call, LookupError([message |-> "SSO instances found, please specify SSO instance ARN", arns |-> arns(instances)]))
       ELSE Returned(call, instances[1])

\* the properties Ids.instance_arn and Ids.identity_store_id: the value the
\* object holds, else once the value of the cache, else the lookup, which
\* also stores what it found in the cache
Ids_property(property) ==
    LET self == ids
        field == IF property = "instance_arn" THEN "_instance_arn" ELSE "_identity_store_id"
        _load_from_cache ==
            /\ self._cache /\ DOMAIN self.cache # {}
            /\ CACHE_KEY \in DOMAIN self.cache
            /\ self.cache[CACHE_KEY].InstanceArn # None
            /\ self.cache[CACHE_KEY].IdentityStoreId # None
        load == ~self._cache_load_attempted /\ _load_from_cache
        looked_up == _do_lookup(self)
        resolved(instance) ==
            [self EXCEPT !._instance_arn = instance.InstanceArn,
                         !._identity_store_id = instance.IdentityStoreId,
                         !._cache_load_attempted = TRUE]
        _store_to_cache(object) ==
            IF object._cache /\ DOMAIN object.cache # {}
            THEN [object EXCEPT !.cache = SetCache(@, CACHE_KEY, Instance(object._instance_arn, object._identity_store_id))]
            ELSE object
    IN /\ ids # Nothing
       /\ IF self[field] # None
          THEN /\ lookup_result' = Returned(<<property>>, self[field])
               /\ service_calls' = <<>>
               /\ UNCHANGED ids
          ELSE IF load
          THEN /\ ids' = resolved(self.cache[CACHE_KEY])
               /\ lookup_result' = Returned(<<property>>, ids'[field])
               /\ service_calls' = <<>>
          ELSE /\ service_calls' = << <<"list_instances">> >>
               /\ IF looked_up.outcome = "raise"
                  THEN /\ ids' = [self EXCEPT !._cache_load_attempted = TRUE]
                       /\ lookup_result' = Raised(<<property>>, looked_up.value)
                  ELSE /\ ids' = _store_to_cache(resolved(looked_up.value))
                       /\ lookup_result' = Returned(<<property>>, ids'[field])
       /\ UNCHANGED <<service, lookup_cache, list_vars, engine_vars, planner_vars, config_vars>>

\* another Ids object is made, with the same dict as its cache or without
Ids_new(instance_arn, identity_store_id, cache_given) ==
    /\ ids # Nothing
    /\ ids' = Ids__init__(instance_arn, identity_store_id, cache_given, ids.cache)
    /\ lookup_result' = Nothing
    /\ service_calls' = <<>>
    /\ UNCHANGED <<service, lookup_cache, list_vars, engine_vars, planner_vars, config_vars>>

\* the instance ARNs or ids and the identity store ids a caller gives
InstanceArns == {None, "ssoins-2", "arn:aws:sso:::instance/ssoins-1", "arn:aws:sso:::instance/ssoins-9"}

IdentityStoreIds == {None, "d-1", "d-2", "d-9"}

\* an Ids object after its construction; the caller's dict is empty or holds
\* the entry of another session
IdsInit ==
    /\ EngineIdle
    /\ PlannerIdle
    /\ ConfigIdle
    /\ context = Nothing /\ list_pc = "idle" /\ yielded = <<>>
    /\ service \in {s \in Services : s.MasterAccountId = "a1"}
    /\ lookup_cache = <<>>
    /\ service_calls = <<>>
    /\ lookup_result = Nothing
    /\ \E instance_arn \in InstanceArns, identity_store_id \in IdentityStoreIds, cache_given \in BOOLEAN :
        \E cached \in {<<>>, [other |-> Instance("arn:aws:sso:::instance/ssoins-8", "d-8")]} :
            ids = Ids__init__(instance_arn, identity_store_id, cache_given, cached)

IdsNext ==
    \/ \E property \in {"instance_arn", "identity_store_id"} : Ids_property(property)
    \/ \E instance_arn \in InstanceArns, identity_store_id \in IdentityStoreIds, cache_given \in BOOLEAN :
        Ids_new(instance_arn, identity_store_id, cache_given)

IdsSpec == IdsInit /\ [][IdsNext]_vars

----------------------------------------------------------------------------
(* Part 4, the configuration: the sessions of the configuration files *)

\* the strings of the model as their characters, for startswith and re.search
Chars ==
    [s \in {"dev", "dev2", "prod", "https://a", "https://b", "d", "^dev$", "de.", "p"} |->
        CASE s = "dev" -> <<"d", "e", "v">>
          [] s = "dev2" -> <<"d", "e", "v", "2">>
          [] s = "prod" -> <<"p", "r", "o", "d">>
          [] s = "https://a" -> <<"h", "t", "t", "p", "s", ":", "/", "/", "a">>
          [] s = "https://b" -> <<"h", "t", "t", "p", "s", ":", "/", "/", "b">>
          [] s = "d" -> <<"d">>
          [] s = "^dev$" -> <<"^", "d", "e", "v", "$">>
          [] s = "de." -> <<"d", "e", ".">>
          [] s = "p" -> <<"p">>]

\* str.startswith("http")
startswith_http(s) ==
    Len(Chars[s]) >= 4 /\ SubSeq(Chars[s], 1, 4) = <<"h", "t", "t", "p">>

\* the optional values: None is the empty list and a value is Some(value)
NoRegistrationScopes == <<>>

NoSession == <<>>

NoSource == <<>>

\* Source(type, name, parent) and Session(...); a session is made only with a name, a
\* start URL and a region
Source(type, name, parent) == [type |-> type, name |-> name, parent |-> parent]

Session_(session_name, source, start_url, region, registration_scopes) ==
    [session_name |-> session_name, source |-> source, start_url |-> start_url,
     region |-> region, registration_scopes |-> registration_scopes]

\* parse_sso_registration_scopes of the raw value of the configuration:
\* the scopes between the commas, or an exception for a value it cannot split
parse_sso_registration_scopes(raw_registration_scopes) ==
    CASE raw_registration_scopes = "sso:account:access" -> Returned(<<"parse">>, <<"sso:account:access">>)
      [] raw_registration_scopes = "a, b" -> Returned(<<"parse">>, <<"a", "b">>)
      [] OTHER -> Raised(<<"parse">>, "AttributeError")

\* dict.get(key) of an entry of the configuration
Get(config, key) == IF key \in DOMAIN config THEN config[key] ELSE None

\* the entry of a name in the profiles or the sso_sessions of the
\* configuration, which are lists of <<name, entry>> in the order of the file
Entry(entries, name) ==
    entries[CHOOSE i \in DOMAIN entries : entries[i][1] = name][2]

\* get_session_from_config_session, whose session is returned as Some(session)
get_session_from_config_session(session_name, source, config) ==
    LET call == <<"get_session_from_config_session", session_name>>
        session_config == Entry(config.sso_sessions, session_name)
        start_url == Get(session_config, "sso_start_url")
        region == Get(session_config, "sso_region")
        parsed == parse_sso_registration_scopes(session_config.sso_registration_scopes)
    IN IF \A i \in DOMAIN config.sso_sessions : config.sso_sessions[i][1] # session_name
       THEN Raised(call, [ConfigSessionError |-> "Did not find config session", name |-> session_name])
       ELSE IF start_url = None \/ region = None
       THEN Raised(call, [ConfigSessionError |-> "is missing fields", name |-> session_name])
       ELSE IF "sso_registration_scopes" \in DOMAIN session_config /\ parsed.outcome = "raise"
       THEN Raised(call, [TypeError |-> "exceptions must derive from BaseException", name |-> session_name])
       ELSE Returned(call, Some(Session_(session_name, Source("config session", session_name, source),
                                        start_url, region,
                                        IF "sso_registration_scopes" \in DOMAIN session_config
                                        THEN Some(parsed.value) ELSE NoRegistrationScopes)))

\* get_session_from_config_profile
get_session_from_config_profile(profile_name, skip_loading_referenced_sessions, config) ==
    LET call == <<"get_session_from_config_profile", profile_name>>
        profile_config == Entry(config.profiles, profile_name)
        start_url == Get(profile_config, "sso_start_url")
        region == Get(profile_config, "sso_region")
        session == get_session_from_config_session(profile_config.sso_session,
                                                   Some(Source("config profile", profile_name, NoSource)), config)
    IN IF \A i \in DOMAIN config.profiles : config.profiles[i][1] # profile_name
       THEN Raised(call, [ConfigProfileError |-> "Did not find config profile", name |-> profile_name])
       ELSE IF "sso_session" \in DOMAIN profile_config
       THEN IF skip_loading_referenced_sessions THEN Returned(call, NoSession)
            ELSE IF session.outcome = "raise" /\ "ConfigSessionError" \in DOMAIN session.value
            THEN Raised(call, [ConfigProfileError |-> "uses an invalid config session", name |-> profile_name])
            ELSE [session EXCEPT !.call = call]
       ELSE IF start_url = None /\ region = None THEN Returned(call, NoSession)
       ELSE IF start_url = None \/ region = None
       THEN Raised(call, [ConfigProfileError |-> "is missing fields", name |-> profile_name])
       ELSE Returned(call, Some(Session_(start_url, Source("config profile", profile_name, NoSource),
                                         start_url, region, NoRegistrationScopes)))

\* re.match in the place of re.search: a match at the start of the string only
re_match(pattern, string) ==
    LET p == Chars[pattern]
        s == Chars[string]
        at_start == Len(p) > 0 /\ p[1] = "^"
        at_end == Len(p) > 0 /\ p[Len(p)] = "$"
        body == SubSeq(p, IF at_start THEN 2 ELSE 1, IF at_end THEN Len(p) - 1 ELSE Len(p))
    IN /\ Len(body) <= Len(s)
       /\ \A k \in 1..Len(body) : body[k] = "." \/ body[k] = s[k]
       /\ at_end => Len(body) = Len(s)

\* re.search(pattern, string) for patterns of literal characters, the dot and
\* the anchors ^ and $: a match anywhere in the string
re_search(pattern, string) ==
    LET p == Chars[pattern]
        s == Chars[string]
        at_start == Len(p) > 0 /\ p[1] = "^"
        at_end == Len(p) > 0 /\ p[Len(p)] = "$"
        body == SubSeq(p, IF at_start THEN 2 ELSE 1, IF at_end THEN Len(p) - 1 ELSE Len(p))
    IN \E i \in (IF at_start THEN {1} ELSE 1..(Len(s) + 1)) :
          /\ i + Len(body) - 1 <= Len(s)
          /\ \A k \in 1..Len(body) : body[k] = "." \/ body[k] = s[i + k - 1]
          /\ at_end => i + Len(body) - 1 = Len(s)

\* Specifier._to_session of a value of the environment: a plain text, or a
\* text that starts with a brace, which is JSON data or is not valid JSON
Specifier__to_session(value, source) ==
    LET call == <<"Specifier", "AWS_SSO_SESSION">>
        parsed == parse_sso_registration_scopes(value.data.sso_registration_scopes)
    IN IF value.kind = "plain" THEN Returned(call, NoSession)
       ELSE IF value.kind = "invalid json"
       THEN Raised(call, [InlineSessionError |-> "is not valid JSON"])
       ELSE IF ~ {"sso_start_url", "sso_region"} \subseteq DOMAIN value.data
       THEN Raised(call, [InlineSessionError |-> "is missing fields"])
       ELSE IF "sso_registration_scopes" \in DOMAIN value.data /\ parsed.outcome = "raise"
       THEN Raised(call, [InlineSessionError |-> "has malformed registration scopes"])
       ELSE Returned(call, Some(Session_(value.data.sso_start_url,
                                        Source("inline specifier", source.name, Some(source)),
                                        value.data.sso_start_url, value.data.sso_region,
                                        IF "sso_registration_scopes" \in DOMAIN value.data
                                        THEN Some(parsed.value) ELSE NoRegistrationScopes)))

\* Specifier(value, source), whose session is made by the constructor
Specifier(value, source) ==
    LET session == Specifier__to_session(value, source)
    IN IF session.outcome = "raise" THEN session
       ELSE Returned(session.call, Some([value |-> value, source |-> source, session |-> session.value]))

\* get_specifier: the specifier of the environment variable, None without it
get_specifier(config) ==
    IF config.AWS_SSO_SESSION.kind = "unset" THEN Returned(<<"get_specifier">>, <<>>)
    ELSE Specifier(config.AWS_SSO_SESSION, Source("env var", "AWS_SSO_SESSION", NoSource))

\* Specifier.matches
Specifier_matches(self, session) ==
    LET call == <<"matches", session.session_name>>
    IN IF self.session # NoSession
       THEN Raised(call, [TypeError |-> "This specifier is in an inline session"])
       ELSE IF startswith_http(self.value.text)
       THEN Returned(call, self.value.text = session.start_url)
       ELSE Returned(call, re_search(self.value.text, session.session_name))

\* lines 184 to 196 of _validate_sessions_are_same, for sessions that differ:
\* the message is started in message and continued in messsage, a local
\* variable that was never assigned
describe_mismatch(s1, s2, bad_fields) ==
    Raised(<<"_validate_sessions_are_same", s1.session_name>>,
           [UnboundLocalError |-> "messsage"])

\* _validate_sessions_are_same
_validate_sessions_are_same(s1, s2) ==
    LET call == <<"_validate_sessions_are_same", s1.session_name>>
        bad_fields == SelectSeq(<<"start_url", "region", "registration_scopes">>,
                                LAMBDA field : s1[field] # s2[field])
    IN IF s1.session_name # s2.session_name
       THEN Raised(call, [ValueError |-> "Session names do not match"])
       ELSE IF bad_fields = <<>> THEN Returned(call, <<>>)
       ELSE describe_mismatch(s1, s2, bad_fields)

\* defaultdict(default_factory=list): a dictionary with no default factory and
\* with the one key default_factory, as lists of <<key, value>>
defaultdict_default_factory_list == << <<"default_factory", "list">> >>

Keys(dict) == {dict[i][1] : i \in DOMAIN dict}

\* the state of find_all_sessions before its first entry
NoSessions ==
    [outcome |-> "scan", unique_sessions |-> <<>>, all_sessions |-> <<>>,
     malformed_session_errors |-> <<>>,
     mismatched_sessions |-> defaultdict_default_factory_list]

\* _add of find_all_sessions: the state after it, or its exception
_add(found, s) ==
    LET same == {i \in DOMAIN found.unique_sessions :
                    found.unique_sessions[i].session_name = s.session_name}
        mismatched_session ==
            _validate_sessions_are_same(found.unique_sessions[CHOOSE i \in same : TRUE], s)
        added == [found EXCEPT !.all_sessions = Append(@, s)]
    IN IF same = {}
       THEN [added EXCEPT !.unique_sessions = Append(@, s)]
       ELSE IF mismatched_session.outcome = "raise" THEN mismatched_session
       ELSE IF mismatched_session.value = <<>> THEN added
       ELSE IF s.session_name \notin Keys(found.mismatched_sessions)
       THEN Raised(<<"find_all_sessions">>, [KeyError |-> s.session_name])
       ELSE Raised(<<"find_all_sessions">>, [TypeError |-> "append"])

\* a try block of find_all_sessions around a session that was loaded: the
\* exceptions of the except clause are collected, the others are raised
Try(found, loaded, except) ==
    IF loaded.outcome = "raise"
    THEN IF except \in DOMAIN loaded.value
         THEN [found EXCEPT !.malformed_session_errors = Append(@, loaded.value)]
         ELSE loaded
    ELSE IF loaded.value = NoSession THEN found
    ELSE _add(found, loaded.value[1])

\* the loops of find_all_sessions over the profiles and over the sso_sessions
RECURSIVE scan_profiles(_, _, _)
scan_profiles(found, config, n) ==
    IF found.outcome # "scan" \/ n > Len(config.profiles) THEN found
    ELSE scan_profiles(Try(found,
                           get_session_from_config_profile(config.profiles[n][1], TRUE, config),
                           "ConfigProfileError"),
                       config, n + 1)

RECURSIVE scan_sso_sessions(_, _, _)
scan_sso_sessions(found, config, n) ==
    IF found.outcome # "scan" \/ n > Len(config.sso_sessions) THEN found
    ELSE scan_sso_sessions(Try(found,
                               get_session_from_config_session(config.sso_sessions[n][1], NoSource, config),
                               "ConfigSessionError"),
                           config, n + 1)

\* find_all_sessions: the FindAllSessionsResult, or the exception it raises
find_all_sessions(config) ==
    LET specifier == get_specifier(config)
        first == Try(NoSessions,
                     IF specifier.outcome = "return" /\ specifier.value # <<>>
                     THEN Returned(specifier.call, specifier.value[1].session)
                     ELSE specifier,
                     "InlineSessionError")
        found == scan_sso_sessions(scan_profiles(first, config, 1), config, 1)
    IN IF found.outcome # "scan" THEN found
       ELSE Returned(<<"find_all_sessions">>,
                     [unique_sessions |-> found.unique_sessions,
                      all_sessions |-> found.all_sessions,
                      malformed_session_errors |-> found.malformed_session_errors,
                      mismatched_sessions |-> found.mismatched_sessions])

\* FindAllSessionsResult.filter: its list, or the exception of matches
RECURSIVE FindAllSessionsResult_filter(_, _, _)
FindAllSessionsResult_filter(self, specifier, n) ==
    LET call == <<"filter", specifier.value>>
        matches == Specifier_matches(specifier, self.unique_sessions[n])
        rest == FindAllSessionsResult_filter(self, specifier, n + 1)
    IN IF n > Len(self.unique_sessions) THEN Returned(call, <<>>)
       ELSE IF matches.outcome = "raise" THEN [matches EXCEPT !.call = call]
       ELSE IF rest.outcome = "raise" THEN rest
       ELSE IF matches.value THEN [rest EXCEPT !.value = <<self.unique_sessions[n]>> \o @]
       ELSE rest

\* FindAllSessionsResult.raise_for_mismatch of a list of sessions: the value
\* of a name in mismatched_sessions is a list or the type list, neither of
\* which has a message
raise_for_mismatch(self, sessions) ==
    LET call == <<"raise_for_mismatch">>
        recorded == {i \in DOMAIN sessions :
                        sessions[i].session_name \in Keys(self.mismatched_sessions)}
    IN IF recorded # {}
       THEN Raised(call, [AttributeError |-> "message"])
       ELSE Returned(call, None)

\* the values of the configuration files and of the environment
SsoStartUrls == {"https://a", "https://b"}

Regions == {"r1", "r2"}

ProfileEntries ==
    {[output |-> "json"], [sso_session |-> "dev"],
     [sso_start_url |-> "https://a"], [sso_region |-> "r1"]}
    \cup {[sso_start_url |-> u, sso_region |-> r] : u \in SsoStartUrls, r \in Regions}

SsoSessionEntries ==
    {[sso_start_url |-> "https://a"], [sso_region |-> "r2"],
     [sso_start_url |-> "https://a", sso_region |-> "r1", sso_registration_scopes |-> "a, b"],
     [sso_start_url |-> "https://a", sso_region |-> "r1", sso_registration_scopes |-> "{}"]}
    \cup {[sso_start_url |-> u, sso_region |-> r] : u \in SsoStartUrls, r \in Regions}

SpecifierValues ==
    {[kind |-> "unset"], [kind |-> "invalid json"],
     [kind |-> "json", data |-> [sso_start_url |-> "https://a"]],
     [kind |-> "json", data |-> [sso_start_url |-> "https://a", sso_region |-> "r1"]],
     [kind |-> "json", data |-> [sso_start_url |-> "https://a", sso_region |-> "r2",
                                 sso_registration_scopes |-> "sso:account:access"]]}
    \cup {[kind |-> "plain", text |-> text] : text \in {"dev", "^dev$", "de.", "d", "p", "https://a", "https://b"}}

\* the configurations: two profiles at most and the sso-sessions dev, dev2
\* and prod at most, in the order of the file
Configs ==
    {[AWS_SSO_SESSION |-> value, profiles |-> profiles, sso_sessions |-> sso_sessions] :
        value \in {v \in SpecifierValues : v.kind # "plain"},
        profiles \in {<< <<"P1", p1>>, <<"P2", p2>> >> : p1 \in ProfileEntries, p2 \in ProfileEntries},
        sso_sessions \in {<< <<"dev", dev>> >> : dev \in SsoSessionEntries}
                         \cup {<< <<"dev", [sso_start_url |-> "https://a", sso_region |-> "r1"]>>,
                                  <<"dev2", [sso_start_url |-> "https://a", sso_region |-> "r1"]>>,
                                  <<"prod", prod>> >> :
                                  prod \in {[sso_start_url |-> "https://b", sso_region |-> "r2"],
                                            [sso_start_url |-> "https://b"]}}}

\* find_all_sessions() of the configuration
FindAllSessions ==
    /\ all_sessions = Nothing
    /\ all_sessions' = find_all_sessions(full_config)
    /\ UNCHANGED <<full_config, selected, cfn_vars, engine_vars, planner_vars, list_vars, lookup_vars>>

\* all_sessions.filter(specifier) of a specifier of the command line
Filter(value) ==
    /\ all_sessions # Nothing
    /\ all_sessions.outcome = "return"
    /\ \E specifier \in {Specifier(value, Source("CLI input", "--sso-session", NoSource))} :
          /\ specifier.outcome = "return"
          /\ selected' = FindAllSessionsResult_filter(all_sessions.value, specifier.value[1], 1)
    /\ UNCHANGED <<full_config, all_sessions, cfn_vars, engine_vars, planner_vars, list_vars, lookup_vars>>

\* all_sessions.raise_for_mismatch(sessions) of the sessions that were
\* selected, which are all the sessions without a specifier
RaiseForMismatch ==
    /\ all_sessions # Nothing
    /\ all_sessions.outcome = "return"
    /\ \E sessions \in {all_sessions.value.unique_sessions}
                       \cup {selected.value : x \in {1} \cap
                                (IF selected # Nothing /\ selected.call[1] = "filter"
                                    /\ selected.outcome = "return" THEN {1} ELSE {})} :
          selected' = [raise_for_mismatch(all_sessions.value, sessions) EXCEPT
                          !.call = <<"raise_for_mismatch", sessions>>]
    /\ UNCHANGED <<full_config, all_sessions, cfn_vars, engine_vars, planner_vars, list_vars, lookup_vars>>

SessionsInit ==
    /\ EngineIdle /\ PlannerIdle /\ CfnIdle
    /\ context = Nothing /\ list_pc = "idle" /\ yielded = <<>>
    /\ service = Nothing /\ lookup_cache = <<>> /\ service_calls = <<>>
    /\ lookup_result = Nothing /\ ids = Nothing
    /\ full_config \in Configs
    /\ all_sessions = Nothing
    /\ selected = Nothing

SessionsNext ==
    \/ FindAllSessions
    \/ \E value \in SpecifierValues \ {[kind |-> "unset"]} : Filter(value)
    \/ RaiseForMismatch

SessionsSpec == SessionsInit /\ [][SessionsNext]_vars

----------------------------------------------------------------------------
(* Part 5, the assignment configuration: Config.load and validate_config *)

\* the width of an account id
ACCOUNT_ID_LENGTH == 12

Digits == {"0", "1", "2", "3", "4", "5", "6", "7", "8", "9"}

\* the values an account is given as: a string as its characters, an integer
\* and a float as their sign and decimal digits, a boolean, and the dict of
\* a reference to a template parameter
String(chars) == [type |-> "str", chars |-> chars]

Integer(negative, digits) == [type |-> "int", negative |-> negative, digits |-> digits]

Float(negative, digits, fraction) ==
    [type |-> "float", negative |-> negative, digits |-> digits, fraction |-> fraction]

\* str(int(account_id)) of a number: the fraction is cut off, True is 1
str_int(account_id) ==
    CASE account_id.type = "bool" -> IF account_id.value THEN <<"1">> ELSE <<"0">>
      [] account_id.type = "int" ->
            (IF account_id.negative THEN <<"-">> ELSE <<>>) \o account_id.digits
      [] account_id.type = "float" ->
            (IF account_id.negative /\ account_id.digits # <<"0">> THEN <<"-">> ELSE <<>>)
                \o account_id.digits

\* str.rjust(width, "0")
rjust(chars, width) ==
    IF Len(chars) >= width THEN chars
    ELSE [i \in 1..(width - Len(chars)) |-> "0"] \o chars

\* format_account_id
format_account_id(account_id) ==
    LET as_str == IF account_id.type \in {"int", "float", "bool"}
                  THEN String(str_int(account_id)) ELSE account_id
    IN IF as_str.type = "str" /\ Len(as_str.chars) < ACCOUNT_ID_LENGTH
       THEN String(rjust(as_str.chars, ACCOUNT_ID_LENGTH))
       ELSE as_str

\* _get_value(dct, keys, ensure_list=True)[1] of data whose values are lists
\* or single values: the value of the first key that the data has
RECURSIVE _get_value(_, _, _)
_get_value(dct, keys, ensure_list) ==
    IF keys = <<>> THEN IF ensure_list THEN <<>> ELSE None
    ELSE IF Head(keys) \in DOMAIN dct
    THEN IF ensure_list /\ "list" \notin DOMAIN dct[Head(keys)]
         THEN <<dct[Head(keys)].value>>
         ELSE IF ensure_list THEN dct[Head(keys)].list ELSE dct[Head(keys)].value
    ELSE _get_value(dct, Tail(keys), ensure_list)

\* Config(): the object before load
NewConfig ==
    [instance |-> None, groups |-> <<>>, users |-> <<>>, permission_sets |-> <<>>,
     ous |-> <<>>, recursive_ous |-> <<>>, accounts |-> <<>>, assignment_group_name |-> None]

\* Config.load
Config_load(self, data) ==
    LET accounts == _get_value(data, <<"Accounts", "Account">>, TRUE)
    IN [self EXCEPT
          !.assignment_group_name = _get_value(data, <<"AssignmentGroupName">>, FALSE),
          !.instance = _get_value(data, <<"Instance", "InstanceArn", "InstanceARN">>, FALSE),
          !.groups = @ \o _get_value(data, <<"Groups", "Group">>, TRUE),
          !.users = @ \o _get_value(data, <<"Users", "User">>, TRUE),
          !.permission_sets = @ \o _get_value(data, <<"PermissionSet", "PermissionSetArn",
                                                    "PermissionSets", "PermissionSetArns">>, TRUE),
          !.ous = @ \o _get_value(data, <<"OUs", "Ous", "OU", "Ou">>, TRUE),
          !.recursive_ous = @ \o _get_value(data, <<"RecursiveOUs", "RecursiveOus",
                                                  "RecursiveOU", "RecursiveOu">>, TRUE),
          !.accounts = @ \o [i \in 1..Len(accounts) |-> format_account_id(accounts[i])]]

\* validate_config with what ids.instance_arn gives, its ARN or its
\* LookupError: the config after the call and the return or the exception
validate_config(config, instance_arn) ==
    LET call == <<"validate_config">>
        with_instance == IF config.instance = None
                         THEN [config EXCEPT !.instance = instance_arn.value] ELSE config
    IN IF config.instance = None /\ instance_arn.outcome = "raise"
       THEN [config |-> config, result |-> [instance_arn EXCEPT !.call = call]]
       ELSE IF config.groups = <<>> /\ config.users = <<>>
       THEN [config |-> with_instance,
             result |-> Raised(call, [ConfigError |-> "No principals specified"])]
       ELSE IF config.permission_sets = <<>>
       THEN [config |-> with_instance,
             result |-> Raised(call, [ConfigError |-> "No permission sets specified"])]
       ELSE IF config.ous = <<>> /\ config.accounts = <<>>
       THEN [config |-> with_instance,
             result |-> Raised(call, [ConfigError |-> "No targets specified"])]
       ELSE [config |-> with_instance, result |-> Returned(call, None)]

\* the accounts of the configuration files
AccountInputs ==
    {String(<<>>), String(<<"1", "2", "3">>), String(<<"a", "b", "c">>),
     String(<<"1", "2", "3", "4", "5", "6", "7", "8", "9", "0", "1", "2">>),
     String(<<"1", "2", "3", "4", "5", "6", "7", "8", "9", "0", "1", "2", "3">>),
     String(<<"1", "2", "3", "4", "5", "6", "7", "8", "9", "0", "1", "x">>),
     Integer(FALSE, <<"0">>), Integer(FALSE, <<"4", "2">>), Integer(TRUE, <<"4", "2">>),
     Integer(FALSE, <<"1", "2", "3", "4", "5", "6", "7", "8", "9", "0", "1", "2">>),
     Integer(FALSE, <<"1", "2", "3", "4", "5", "6", "7", "8", "9", "0", "1", "2", "3">>),
     Float(FALSE, <<"4", "2">>, <<"5">>), Float(TRUE, <<"0">>, <<"5">>),
     [type |-> "bool", value |-> TRUE], [type |-> "dict", Ref |-> "Account"]}

\* the data of a configuration file: every key is there or not, under one
\* of its names, with a list or with a single value
Keyed(names, values) ==
    {<<>>} \cup {[n \in {name} |-> value] : name \in names, value \in values}

Merge(f, g) == [k \in DOMAIN f \cup DOMAIN g |-> IF k \in DOMAIN f THEN f[k] ELSE g[k]]

ConfigData ==
    {Merge(instance, Merge(groups, Merge(users, Merge(permission_sets,
        Merge(ous, Merge(recursive_ous, accounts)))))) :
        instance \in Keyed({"Instance"}, {[value |-> "arn:aws:sso:::instance/ssoins-1"]}),
        groups \in Keyed({"Groups"}, {[list |-> <<"g1">>]}),
        users \in Keyed({"User"}, {[value |-> "u1"]}),
        permission_sets \in Keyed({"PermissionSets"}, {[list |-> <<"ps-1", "ps-2">>]}),
        ous \in Keyed({"OUs"}, {[list |-> <<"ou-1">>]}),
        recursive_ous \in Keyed({"RecursiveOus"}, {[value |-> "ou-2"]}),
        accounts \in Keyed({"Accounts"}, {[list |-> <<a>>] : a \in AccountInputs}
                                         \cup {[value |-> Integer(FALSE, <<"4", "2">>)],
                                               [list |-> <<String(<<"1", "2", "3">>), String(<<"a", "b", "c">>)>>]})}

\* config = Config(); config.load(data), as the command does for a file
Load ==
    /\ loaded_config = Nothing
    /\ loaded_config' = Config_load(NewConfig, config_data)
    /\ UNCHANGED <<config_data, validation, macro_event, macro_response>>
    /\ UNCHANGED <<full_config, all_sessions, selected, engine_vars, planner_vars, list_vars, lookup_vars>>

\* validate_config(config, ids), where the instance of ids is found or is not
ValidateConfig(instance_arn) ==
    /\ loaded_config # Nothing
    /\ validation = Nothing
    /\ \E done \in {validate_config(loaded_config, instance_arn)} :
          /\ loaded_config' = done.config
          /\ validation' = [done.result EXCEPT !.call = <<"validate_config", loaded_config>>]
    /\ UNCHANGED <<config_data, macro_event, macro_response>>
    /\ UNCHANGED <<full_config, all_sessions, selected, engine_vars, planner_vars, list_vars, lookup_vars>>

\* ids.instance_arn of an Ids object that finds its instance or finds none
Ids_instance_arn(found) ==
    IF found THEN Returned(<<"instance_arn">>, "arn:aws:sso:::instance/ssoins-2")
    ELSE Raised(<<"instance_arn">>, LookupError([message |-> "No SSO instance found", arns |-> <<>>]))

CfnConfigInit ==
    /\ EngineIdle /\ PlannerIdle
    /\ context = Nothing /\ list_pc = "idle" /\ yielded = <<>>
    /\ service = Nothing /\ lookup_cache = <<>> /\ service_calls = <<>>
    /\ lookup_result = Nothing /\ ids = Nothing
    /\ full_config = Nothing /\ all_sessions = Nothing /\ selected = Nothing
    /\ config_data \in ConfigData
    /\ loaded_config = Nothing
    /\ validation = Nothing
    /\ macro_event = Nothing
    /\ macro_response = Nothing

CfnConfigNext ==
    \/ Load
    \/ \E found \in BOOLEAN : ValidateConfig(Ids_instance_arn(found))

CfnConfigSpec == CfnConfigInit /\ [][CfnConfigNext]_vars

----------------------------------------------------------------------------
(* Part 6, the macro: the handler of the template transform *)

\* the try block of handler on the template of the event: the exception
\* that ends it, or the template it leaves in output_template after the
\* child templates are put in the bucket. The loop over the AssignmentGroup
\* resources is the one of the planner, on the resources the template keeps
RECURSIVE MacroTemplates(_, _, _, _)
MacroTemplates(items, config, output_template, max_stack) ==
    IF items = <<>> THEN [raises |-> None, parent |-> output_template, children |-> <<>>]
    ELSE LET resolved ==
                 ResolveTemplates(Head(items).resource_collection.assignments,
                                  Head(items).resource_collection.permission_sets,
                                  config, Len(output_template) + max_stack)
             written == GetTemplates(resolved, config, Head(items).stem, output_template)
             rest == MacroTemplates(Tail(items), config, written.parent, max_stack)
         IN IF resolved.raises # None THEN [raises |-> resolved.raises]
            ELSE IF rest.raises # None THEN rest
            ELSE [rest EXCEPT !.children = written.children \o @]

handler_try(event, environment) ==
    LET input_template == event.fragment
        invalid == {i \in DOMAIN input_template.groups : ~ input_template.groups[i].valid}
        without_instance == {i \in DOMAIN input_template.groups : ~ input_template.groups[i].instance}
        templates == MacroTemplates(input_template.groups, environment.generation_config,
                                    BaseResources(input_template.Resources[1]),
                                    MaxStackResources(environment.generation_config, input_template.groups))
    IN IF input_template.Resources = <<>>
       THEN [raises |-> "TypeError"]
       ELSE IF invalid # {}
               /\ \A i \in without_instance : environment.instance_found \/ \E j \in invalid : j <= i
       THEN [raises |-> "ConfigError"]
       ELSE IF without_instance # {} /\ ~ environment.instance_found
       THEN [raises |-> "LookupError"]
       ELSE IF templates.raises # None THEN templates
       ELSE IF templates.children # <<>> /\ ~ environment.put_object
       THEN [raises |-> "ClientError"]
       ELSE templates

\* handler: what it returns, which is None after the except clause, where
\* the output is made and the function ends
handler(event, environment) ==
    LET request_id == event.requestId
        done == handler_try(event, environment)
    IN IF done.raises = None
       THEN Returned(<<"handler", request_id>>,
                     Some([requestId |-> request_id, status |-> "success", fragment |-> done.parent]))
       ELSE Returned(<<"handler", request_id>>, <<>>)

\* the templates of the events: without Resources or with some, and with no,
\* one or two AssignmentGroup resources, which validate_resource accepts or
\* not and which name their instance or not
MacroGroups ==
    {<<>>}
    \cup {<<[stem |-> "G1", valid |-> valid, instance |-> instance, resource_collection |-> rc]>> :
            valid \in BOOLEAN, instance \in BOOLEAN,
            rc \in ResourceCollections("G1", {FirstAssignments(MaxWindow), FirstAssignments(MaxAssignments)}, {<<>>})}
    \cup {<<[stem |-> "G1", valid |-> TRUE, instance |-> instance, resource_collection |-> rc1],
            [stem |-> "G2", valid |-> valid, instance |-> TRUE, resource_collection |-> rc2]>> :
            valid \in BOOLEAN, instance \in BOOLEAN,
            rc1 \in ResourceCollections("G1", {FirstAssignments(MaxWindow)}, {<<>>}),
            rc2 \in ResourceCollections("G2", {FirstAssignments(MaxWindow)}, {<<>>})}

MacroEvents ==
    [requestId : {"r1", "r2"},
     fragment : [Resources : {<<>>} \cup {<<n>> : n \in 0..MaxBaseResources},
                 groups : MacroGroups]]

\* what the handler finds around it: the limits of its environment
\* variables, whether Ids finds the instance and whether the bucket takes
\* the child templates
MacroEnvironments ==
    [generation_config : GenerationConfigs, instance_found : BOOLEAN, put_object : BOOLEAN]

\* an invocation of the handler
Handler(environment) ==
    /\ macro_response = Nothing
    /\ macro_response' = handler(macro_event, environment)
    /\ UNCHANGED <<macro_event, config_data, loaded_config, validation>>
    /\ UNCHANGED <<full_config, all_sessions, selected, engine_vars, planner_vars, list_vars, lookup_vars>>

MacroInit ==
    /\ EngineIdle /\ PlannerIdle
    /\ context = Nothing /\ list_pc = "idle" /\ yielded = <<>>
    /\ service = Nothing /\ lookup_cache = <<>> /\ service_calls = <<>>
    /\ lookup_result = Nothing /\ ids = Nothing
    /\ full_config = Nothing /\ all_sessions = Nothing /\ selected = Nothing
    /\ config_data = Nothing /\ loaded_config = Nothing /\ validation = Nothing
    /\ macro_event \in MacroEvents
    /\ macro_response = Nothing

MacroNext == \E environment \in MacroEnvironments : Handler(environment)

MacroSpec == MacroInit /\ [][MacroNext]_vars

----------------------------------------------------------------------------
(* Part 7, the login of a session and the credentials that are fetched for it *)

\* the sessions of the configuration that the login is for: an inline
\* session, which is named by its start URL, and a named session with and
\* without scopes
LoginSessions ==
    {[session_name |-> "https://u1", start_url |-> "https://u1", region |-> "us-east-1",
      registration_scopes |-> NoScopes],
     [session_name |-> "s1", start_url |-> "https://u1", region |-> "us-east-1",
      registration_scopes |-> Scoped],
     [session_name |-> "s1", start_url |-> "https://u2", region |-> "us-east-1",
      registration_scopes |-> NoScopes]}

\* Session.is_inline_session: the name starts with http, as the start URLs do
is_inline_session(session) == session.session_name \in StartUrls

\* the loop of login: fetch_token of an interactive fetcher, without the name
\* and the scopes of an inline session
login(f, sessions) ==
    /\ pc[f] = "idle"
    /\ \E session \in sessions, force \in BOOLEAN :
          args' = [args EXCEPT ![f] =
                     [op |-> "fetch_token", start_url |-> session.start_url,
                      session_name |-> IF is_inline_session(session) THEN None
                                       ELSE session.session_name,
                      sso_region |-> session.region,
                      registration_scopes |-> IF is_inline_session(session) THEN NoScopes
                                              ELSE session.registration_scopes,
                      force_refresh |-> force, interactive |-> TRUE,
                      caller |-> "login", session |-> session]]
    /\ Goto(f, "_token")
    /\ UNCHANGED <<now, cache, registration, authorization, interval, token, ret, err, log>>

\* get_credentials for the start URL and the region of a session: the token
\* loader calls fetch_token of a fetcher that is not interactive with the
\* start URL and force_refresh
get_credentials(f, session) ==
    /\ pc[f] = "idle"
    /\ \E force_refresh \in BOOLEAN :
          args' = [args EXCEPT ![f] =
                     [op |-> "fetch_token", start_url |-> session.start_url,
                      session_name |-> None, sso_region |-> session.region,
                      registration_scopes |-> NoScopes,
                      force_refresh |-> force_refresh, interactive |-> FALSE,
                      caller |-> "get_credentials", session |-> session]]
    /\ Goto(f, "_token")
    /\ UNCHANGED <<now, cache, registration, authorization, interval, token, ret, err, log>>

\* create_sso_provider for a session, with the name of a named session: the
\* token provider it makes is given the name, and the fetcher of the
\* credentials loads the token from it
create_sso_provider(f, session) ==
    /\ pc[f] = "idle"
    /\ args' = [args EXCEPT ![f] =
                  [op |-> "load_token", start_url |-> session.start_url,
                   session_name |-> IF is_inline_session(session) THEN None
                                    ELSE session.session_name,
                   sso_region |-> session.region, force_refresh |-> FALSE,
                   caller |-> "create_sso_provider", session |-> session]]
    /\ Goto(f, "_refresher")
    /\ UNCHANGED <<now, cache, registration, authorization, interval, token, ret, err, log>>

\* a login, and after it has returned the credentials of its session are
\* fetched, at once or later
CredentialNext ==
    \/ UNCHANGED <<planner_vars, library_vars>> /\ login("f1", LoginSessions)
    \/ UNCHANGED <<planner_vars, library_vars>> /\ FetchStep("f1", MaxEarlierAttempts)
    \/ UNCHANGED <<planner_vars, library_vars>> /\ pc["f1"] = "done" /\ get_credentials("f2", args["f1"].session)
    \/ UNCHANGED <<planner_vars, library_vars>> /\ pc["f1"] = "done" /\ create_sso_provider("f2", args["f1"].session)
    \/ UNCHANGED <<planner_vars, library_vars>> /\ FetchStep("f2", MaxAttempts)
    \/ UNCHANGED <<planner_vars, library_vars>> /\ RefreshStep("f2")
    \/ UNCHANGED <<planner_vars, library_vars>> /\ pc["f1"] \in {"done", "exited"} /\ pc["f2"] = "idle" /\ Tick

CredentialSpec == Init /\ [][CredentialNext]_vars

----------------------------------------------------------------------------
(* The properties of the token engine *)

\* the answers of the create_token calls of flow f, in order
Responses(f) ==
    [i \in 1..Count(f, "create_token") |-> Events(f, "create_token")[i].resp]

\* the seconds of the sleeps of flow f, in order
Sleeps(f) == [i \in 1..Count(f, "sleep") |-> Events(f, "sleep")[i].n]

\* the last call flow f has made
Last(f) == log[f][Len(log[f])]

\* flow f is a fetch_token call under way or just over
Fetching(f) == Op(f) = "fetch_token"

\* C1: fetch_token with force_refresh false returns the cached token and
\* calls the service not at all whenever the entry under the session's key
\* has an expiresAt at least the expiry window (15 minutes) after now; an
\* entry with less time left, or without expiresAt, is not returned: what a
\* flow returns after a device flow is the token issued to its own device code.
C1_FreshCachedTokenIsReturned ==
    /\ [][\A f \in Flows :
            (pc[f] = "_token" /\ pc'[f] # "_token" /\ ~args[f].force_refresh) =>
               LET cache_key == _token_cache_key(args[f].start_url, args[f].session_name)
                   fresh == /\ cache_key \in DOMAIN cache
                            /\ "expiresAt" \in DOMAIN cache[cache_key]
                            /\ cache[cache_key].expiresAt - now >= 15 * 60 * TicksPerSecond IN
               IF fresh
               THEN pc'[f] = "done" /\ ret'[f] = cache[cache_key] /\ log'[f] = <<>>
               ELSE pc'[f] # "done" /\ ret'[f] = Nothing]_vars
    /\ [](\A f \in Flows :
            (Fetching(f) /\ pc[f] = "done" /\ log[f] # <<>>) =>
               /\ Last(f).ev = "create_token"
               /\ ret[f].accessToken[2] = f
               /\ ret[f].receivedAt = strftime(now))

\* C1, its case: a call has returned, without a call to the service, a
\* cached token that has exactly the expiry window left
C1_Witness ==
    \E f \in Flows :
        /\ Fetching(f) /\ pc[f] = "done" /\ log[f] = <<>>
        /\ ~args[f].force_refresh
        /\ ret[f].expiresAt - now = Seconds(_DEFAULT_EXPIRY_WINDOW)

\* C2: where start_device_authorization names the interval 5 and create_token
\* answers AuthorizationPending, SlowDown and then the token, the engine has
\* slept twice, 5 and then 10 seconds, has called the callback once with the
\* userCode, and has cached the token.
C2_SleepsFiveThenTen ==
    \A f \in Flows :
        (/\ Fetching(f) /\ pc[f] = "done"
         /\ "interval" \in DOMAIN authorization[f]
         /\ authorization[f].interval = 5
         /\ Responses(f) = <<"AuthorizationPendingException", "SlowDownException", Success>>)
        => /\ Sleeps(f) = <<5, 10>>
           /\ Count(f, "on_pending_authorization") = 1
           /\ Events(f, "on_pending_authorization")[1].userCode = authorization[f].userCode
           /\ get_token_from_cache(args[f].start_url, args[f].session_name) = ret[f]

\* C3: a create_token call that fails with ExpiredTokenException is the last
\* call of its flow, and the flow has raised PendingAuthorizationExpiredError.
C3_ExpiredTokenIsFatal ==
    \A f \in Flows : \A i \in 1..Len(log[f]) :
        (log[f][i].ev = "create_token" /\ log[f][i].resp = "ExpiredTokenException")
        => /\ i = Len(log[f])
           /\ pc[f] = "raised"
           /\ err[f] = "PendingAuthorizationExpiredError"

\* C3, its case: the device code has expired in the polling loop, after a sleep
C3_Witness ==
    \E f \in Flows :
        /\ err[f] = "PendingAuthorizationExpiredError"
        /\ Count(f, "sleep") >= 1
        /\ Count(f, "create_token") >= 3

\* C4: a fetch_token call that finds in the cache an expired token with a
\* refreshToken, the registration of which has not expired, calls
\* create_token with the grant type refresh_token, and neither
\* start_device_authorization nor the callback.
C4_ExpiredTokenIsRefreshed ==
    \A f \in Flows :
        (/\ Fetching(f) /\ ~args[f].force_refresh
         /\ pc[f] \notin {"_token", "_cache_token", "done"}
         /\ Count(f, "sleep") = 0
         /\ "refreshToken" \in DOMAIN token[f]
         /\ Refreshable(token[f]))
        => /\ Count(f, "start_device_authorization") = 0
           /\ Count(f, "on_pending_authorization") = 0
           /\ Count(f, "create_token(refresh_token)") <= 1

C6_NonInteractiveRaises ==
    \A f \in Flows :
        (/\ Fetching(f) /\ ~args[f].interactive
         /\ Count(f, "on_pending_authorization") >= 1)
        => /\ pc[f] = "raised"
           /\ err[f] = "AuthenticationNeededError"
           /\ Last(f).ev = "on_pending_authorization"
           /\ Last(f).resp = "non_interactive_auth_raiser"
           /\ Count(f, "sleep") = 0
           /\ Count(f, "create_token") = 1
           /\ ret[f] = Nothing

\* C6, its case: a call has raised AuthenticationNeededError
C6_Witness ==
    \E f \in Flows :
        /\ Fetching(f) /\ ~args[f].interactive
        /\ err[f] = "AuthenticationNeededError"
        /\ Responses(f) \in {<<"AuthorizationPendingException">>, <<"SlowDownException">>}

\* C7, as it was claimed: the engine neither sleeps nor calls create_token
\* after the expiresAt of its device authorization.
C7_NoCallAfterExpiresAt ==
    \A f \in Flows : \A i \in 1..Len(log[f]) :
        log[f][i].ev \in {"sleep", "create_token"} => ~log[f][i].late

\* C7: polling is bounded by the answers of the service alone. After a
\* create_token call answered AuthorizationPending or SlowDown the engine goes
\* on, before the expiresAt of the device authorization and after it: to the
\* callback after the first call, to the sleep after a call of the loop, and
\* from the sleep to the next call. A flow ends with a token the service has
\* answered, or with an error: PendingAuthorizationExpiredError if and only if
\* the service has answered ExpiredTokenException.
C7_PollingEndsOnServiceAnswer ==
    \A f \in Flows :
        (Fetching(f) /\ log[f] # <<>>) =>
            LET e == Last(f) IN
            /\ (e.ev = "create_token"
                /\ e.resp \in {"AuthorizationPendingException", "SlowDownException"})
               => pc[f] = IF Count(f, "create_token") = 1
                          THEN "on_pending_authorization" ELSE "_sleep"
            /\ e.ev = "sleep" => pc[f] = "loop_attempt"
            /\ pc[f] \in {"_cache_token", "done"}
               => e.ev = "create_token" /\ e.resp = Success
            /\ pc[f] = "raised"
               => \/ e.ev = "on_pending_authorization"
                  \/ e.ev = "create_token" /\ e.resp \in {"ExpiredTokenException", "AccessDeniedException"}
            /\ err[f] = "PendingAuthorizationExpiredError"
               <=> (e.ev = "create_token" /\ e.resp = "ExpiredTokenException")

\* C7, its case: the service has answered a call made after the expiresAt
\* with AuthorizationPending or SlowDown, and the engine is about to sleep again
C7_Witness ==
    \E f \in Flows :
        /\ Fetching(f) /\ pc[f] = "_sleep"
        /\ Last(f).ev = "create_token" /\ Last(f).late
        /\ Count(f, "sleep") >= 1

\* the fields of a token as _create_token_attempt writes it
TokenFields ==
    {"startUrl", "region", "accessToken", "expiresAt", "receivedAt",
     "clientId", "clientSecret", "registrationExpiresAt"}

\* a complete token, the client of which is the one its access token was issued to
Whole(t) ==
    /\ TokenFields \subseteq DOMAIN t
    /\ t.accessToken[2] \in Flows
    /\ t.clientId = <<"clientId", t.accessToken[3]>>
    /\ t.clientSecret = <<"clientSecret", t.accessToken[3]>>

\* C8, as it was claimed: every one of the flows of a session that run at
\* the same time returns a token that the service has issued to that flow.
C8_EveryFlowReturnsItsOwnToken ==
    \A f \in Flows :
        (Fetching(f) /\ pc[f] = "done") => ret[f].accessToken[2] = f

\* C8: every one of the flows of a session that run at the same time returns
\* a complete token: the one the service has issued to that flow or, without
\* a call to the service, the one another flow has written to the cache. The
\* entry under the token cache key is absent, or it is one complete token, of
\* the session, with the clientId and the clientSecret of the registration
\* that has obtained it.
C8_TokensAreWhole ==
    /\ \A f \in Flows :
         (Fetching(f) /\ pc[f] = "done") =>
            /\ Whole(ret[f])
            /\ ret[f].startUrl = args[f].start_url
            /\ IF log[f] = <<>>
               THEN ret[f].accessToken[2] # f /\ ~args[f].force_refresh
               ELSE ret[f].accessToken[2] = f /\ ret[f].clientId = registration[f].clientId
    /\ \A s \in SharedSessions :
         LET t == get_token_from_cache(s.start_url, s.session_name) IN
         t # Nothing =>
            /\ Whole(t)
            /\ t.startUrl = s.start_url /\ t.region = s.sso_region
            /\ \E l \in TokenLifetimes : t.expiresAt = t.receivedAt + Seconds(l)

\* C8, its case: two flows have registered a client each and have gone
\* through the device flow at the same time, and the token of the one has
\* replaced the token of the other in the cache
C8_Witness ==
    \E f \in Flows : \E g \in Flows \ {f} :
        /\ pc[f] = "done" /\ pc[g] = "done"
        /\ Count(f, "register_client") = 1 /\ Count(g, "register_client") = 1
        /\ Count(f, "create_token") >= 1 /\ Count(g, "create_token") >= 1
        /\ ret[f].clientId # ret[g].clientId
        /\ get_token_from_cache(args[g].start_url, args[g].session_name) = ret[g]

\* C9: a fetch_token call with a session name ends with its token under the
\* entry get_token_from_cache reads for that session name with any start
\* URL; a call without a session name ends with its token under the entry
\* of its start URL, and of no other start URL.
C9_TokenCacheKey ==
    \A f \in Flows :
        (Fetching(f) /\ pc[f] = "done") =>
            IF args[f].session_name # None
            THEN \A u \in StartUrls : get_token_from_cache(u, args[f].session_name) = ret[f]
            ELSE /\ get_token_from_cache(args[f].start_url, None) = ret[f]
                 /\ \A u \in StartUrls \ {args[f].start_url} :
                      get_token_from_cache(u, None) # ret[f]
                 /\ \A n \in SessionNames \ {None} :
                      get_token_from_cache(args[f].start_url, n) # ret[f]

\* C9, its case: a call with a session name has returned the token a call
\* with the same session name and another start URL has cached
C9_Witness ==
    \E f \in Flows :
        /\ Fetching(f) /\ pc[f] = "done" /\ log[f] = <<>>
        /\ args[f].session_name # None
        /\ ret[f].startUrl # args[f].start_url

\* C10: a device flow calls register_client if and only if the cache holds
\* no unexpired registration under the key of its start URL, region, scopes
\* and session name; an unexpired one is taken as it is, with nothing
\* written, and a new one is stored under that key. The registration a flow
\* holds is therefore one with its own scopes, and its own if and only if
\* it has called register_client.
C10_RegistrationIsReused ==
    /\ [][\A f \in Flows :
            LET cache_key == _registration_cache_key(args[f].sso_region, args[f].start_url,
                                                     args[f].session_name, args[f].registration_scopes)
                unexpired == /\ cache_key \in DOMAIN cache
                             /\ "expiresAt" \in DOMAIN cache[cache_key]
                             /\ cache[cache_key].expiresAt - now >= 15 * 60 * TicksPerSecond IN
            /\ (pc[f] = "_registration" /\ pc'[f] # "_registration") =>
                  IF unexpired
                  THEN /\ pc'[f] = "_authorize_client"
                       /\ registration'[f] = cache[cache_key]
                       /\ cache' = cache /\ log' = log
                  ELSE /\ pc'[f] = "_register_client"
                       /\ cache' = cache /\ log' = log
            /\ (pc[f] = "_register_client" /\ pc'[f] # "_register_client") =>
                  /\ pc'[f] = "_authorize_client"
                  /\ log'[f] = Append(log[f], [ev |-> "register_client", resp |-> Success,
                                               n |-> 0, late |-> FALSE])
                  /\ registration'[f].clientId = <<"clientId", f>>
                  /\ cache_key \in DOMAIN cache' /\ cache'[cache_key] = registration'[f]
                  /\ \A k \in DOMAIN cache : k # cache_key =>
                        k \in DOMAIN cache' /\ cache'[k] = cache[k]]_vars
    /\ [](\A f \in Flows :
            (Fetching(f) /\ registration[f] # Nothing) =>
               /\ Count(f, "register_client") <= 1
               /\ Count(f, "register_client") = 1 <=> registration[f].clientId = <<"clientId", f>>
               /\ IF Len(args[f].registration_scopes) > 1
                  THEN /\ "scopes" \in DOMAIN registration[f]
                       /\ registration[f].scopes = args[f].registration_scopes
                  ELSE "scopes" \notin DOMAIN registration[f])

\* C10, its case: a device flow goes on with the registration another flow has
\* made for the same start URL, region, scopes and session name
C10_Witness ==
    \E f \in Flows :
        /\ Fetching(f) /\ pc[f] = "first_attempt"
        /\ Count(f, "register_client") = 0
        /\ registration[f].clientId # <<"clientId", f>>
        /\ registration[f] \in {cache[k] : k \in DOMAIN cache}

\* the entry of the token cache is one of a logged-in user: it has the
\* expiry window left
LoggedIn(entry) ==
    /\ "expiresAt" \in DOMAIN entry
    /\ entry.expiresAt - now >= 15 * 60 * TicksPerSecond

\* C11: fetch_token with force_refresh true, as login calls it, does not read
\* the token cache and goes through the device flow: when it is over it has
\* called start_device_authorization, and when it returns it returns the
\* token issued to its own device code, which is then the entry of the cache.
\* With force_refresh false and the token of a logged-in user in the cache
\* it returns that token; nothing is called and nothing is written.
C11_ForceRefreshAuthenticates ==
    /\ [][\A f \in Flows :
            (pc[f] = "_token" /\ pc'[f] # "_token") =>
               LET entry == get_token_from_cache(args[f].start_url, args[f].session_name) IN
               IF args[f].force_refresh
               THEN pc'[f] = "_registration" /\ ret'[f] = Nothing /\ cache' = cache
               ELSE LoggedIn(entry) =>
                       /\ pc'[f] = "done" /\ ret'[f] = entry
                       /\ cache' = cache /\ log' = log /\ log[f] = <<>>]_vars
    /\ [](\A f \in Flows :
            (Fetching(f) /\ args[f].force_refresh /\ pc[f] \in {"done", "raised"}) =>
               /\ Count(f, "start_device_authorization") = 1
               /\ pc[f] = "done" =>
                     /\ Last(f).ev = "create_token" /\ Last(f).resp = Success
                     /\ ret[f].accessToken[2] = f
                     /\ ret[f].receivedAt = strftime(now)
                     /\ get_token_from_cache(args[f].start_url, args[f].session_name) = ret[f])

\* C11, its case: an interactive call with force_refresh true has gone through
\* the device flow and holds its new token, while the cache holds the token
\* of a logged-in user
C11_Witness ==
    \E f \in Flows :
        /\ Fetching(f) /\ args[f].force_refresh /\ args[f].interactive
        /\ pc[f] = "_cache_token"
        /\ Count(f, "start_device_authorization") = 1
        /\ LoggedIn(get_token_from_cache(args[f].start_url, args[f].session_name))
        /\ get_token_from_cache(args[f].start_url, args[f].session_name) # token[f]

\* C12: pop_token_from_cache returns the entry the token cache holds for the
\* session and leaves the cache without it, so that get_token_from_cache
\* finds nothing there; where the cache holds no entry for the session it
\* returns None and leaves the cache as it is.
C12_PopReturnsAndRemoves ==
    [][\A f \in Flows :
         (pc[f] = "idle" /\ Op(f)' = "pop_token_from_cache") =>
            LET entry == get_token_from_cache(args'[f].start_url, args'[f].session_name) IN
            /\ pc'[f] = "done"
            /\ _token_cache_key(args'[f].start_url, args'[f].session_name) \notin DOMAIN cache'
            /\ IF entry = Nothing
               THEN ret'[f] = PyNone /\ cache' = cache
               ELSE ret'[f] = entry]_vars

\* C13: logout returns False where the cache holds no token for the start
\* URL; where it holds one, the logout call of the service is made with its
\* accessToken, and logout returns True if the call has succeeded and the
\* exception if it has raised. It never raises.
C13_LogoutResult ==
    [][\A f \in Flows :
         (pc[f] = "idle" /\ Op(f)' = "logout") =>
            LET entry == get_token_from_cache(args'[f].start_url, None) IN
            /\ pc'[f] = "done"
            /\ IF entry = Nothing
               THEN ret'[f] = PyBool(FALSE) /\ log'[f] = <<>>
               ELSE /\ Len(log'[f]) = 1
                    /\ log'[f][1].ev = "logout"
                    /\ log'[f][1].accessToken = entry.accessToken
                    /\ ret'[f] = IF log'[f][1].resp = None
                                 THEN PyBool(TRUE) ELSE PyException(log'[f][1].resp)]_vars

----------------------------------------------------------------------------
(* The properties of the template planner *)

\* the templates are written
Emitted == planner_pc = "deploy"

\* the assignment resources of a template in the order of emission
AssignmentsOf(template) == SelectSeq(template, LAMBDA r : r.Type = "AWS::SSO::Assignment")

\* the nested stack resources of a template in the order of emission
NestedStacksOf(template) == SelectSeq(template, LAMBDA r : r.Type = "AWS::CloudFormation::Stack")

\* the templates of the collection
EmittedTemplates ==
    {StackTemplate(template_collection, t) : t \in Stacks(template_collection)}

\* C14: in every emitted template, parent or child, with the window W of
\* max_concurrent_assignments, the k-th assignment resource in the order of
\* emission depends on the (k-W)-th one of the template when there is one,
\* and has no DependsOn otherwise
C14_DependsOnIsTheWindow ==
    Emitted =>
        \A template \in EmittedTemplates :
            LET emitted == AssignmentsOf(template)
                W == max_concurrent_assignments(generation_config) IN
            \A k \in 1..Len(emitted) :
                emitted[k].DependsOn = IF k > W THEN emitted[k - W].name ELSE NoDependsOn

\* the assignment resources of stack t that are being created
InProgress(t) ==
    {k \in DOMAIN status[t] :
        /\ status[t][k] = "CREATE_IN_PROGRESS"
        /\ StackTemplate(template_collection, t)[k].Type = "AWS::SSO::Assignment"}

\* C15: the deployment service starts a resource once the resource named in
\* its DependsOn has completed; then at no time are more than
\* max_concurrent_assignments assignment resources of one stack being created
C15_AtMostWindowInProgress ==
    Emitted =>
        \A t \in Stacks(template_collection) :
            Cardinality(InProgress(t)) <= max_concurrent_assignments(generation_config)

\* C16: every template the planner emits, the parent and each child, has at
\* most max_resources_per_template resources; an input that cannot be laid
\* out within the cap makes the planner raise and emits no template
C16_TemplatesWithinTheCap ==
    Emitted =>
        \A template \in EmittedTemplates :
            Len(template) <= max_resources_per_template(generation_config)

\* the elements of a list
Range(list) == {list[i] : i \in DOMAIN list}

\* resolve_templates has returned for the last item and uses child stacks
Sharded ==
    /\ planner_pc \in {"get_templates", "deploy"}
    /\ num_child_stacks(generation_config) # NoInt
    /\ num_child_stacks(generation_config)[1] > 0

\* the shards in which assignment a is placed, counted from 0
ShardsOf(a) ==
    {i \in 0..(Len(parent_template.child_templates) - 1) :
        a \in Range(parent_template.child_templates[i + 1])}

\* C17: with N > 0 child stacks every assignment of the input is placed in
\* exactly one child shard, the one of its digest modulo N; the shards
\* together hold the input, the parent holds no assignment, and no
\* permission set resource is in a child
C17_ShardByDigest ==
    Sharded =>
        LET N == num_child_stacks(generation_config)[1]
            input == Range(resource_collection.assignments) IN
        /\ Len(parent_template.child_templates) = N
        /\ \A a \in input : ShardsOf(a) = {get_hash(a) % N}
        /\ UNION {Range(parent_template.child_templates[i]) : i \in 1..N} = input
        /\ parent_template.assignments = <<>>
        /\ Emitted =>
            /\ AssignmentsOf(template_collection.parent) = <<>>
            /\ \A j \in DOMAIN template_collection.children :
                \A r \in Range(template_collection.children[j].template) :
                    r.Type = "AWS::SSO::Assignment"
            /\ \A j \in DOMAIN template_collection.children :
                template_collection.children[j].stem = template_process_input.items[item].stem =>
                    {r.assignment.key : r \in Range(template_collection.children[j].template)}
                        = {a.key : a \in Range(parent_template.child_templates[template_collection.children[j].index + 1])}
            /\ Len(SelectSeq(template_collection.parent, LAMBDA r : r.Type = "AWS::SSO::PermissionSet"))
                = num_resources(resource_collection.permission_sets)

\* two child templates are emitted, and the parent has a permission set
C17_Witness ==
    /\ Sharded
    /\ Emitted
    /\ Len(template_collection.children) = 2
    /\ num_resources(resource_collection.permission_sets) > 0
    /\ Len(resource_collection.assignments) = MaxAssignments

\* the nested stacks of the parent that are being created
StacksInProgress ==
    {k \in DOMAIN status[1] :
        /\ status[1][k] = "CREATE_IN_PROGRESS"
        /\ template_collection.parent[k].Type = "AWS::CloudFormation::Stack"}

\* C18: the nested stack resources of the parent template are one DependsOn
\* chain in the order of the child indexes: the first emitted has no
\* DependsOn, every later one names the one emitted just before it, and no
\* two child stacks are being deployed at the same time
C18_NestedStacksAreOneChain ==
    Emitted =>
        LET stacks == NestedStacksOf(template_collection.parent) IN
        /\ \A k \in 1..Len(stacks) :
            stacks[k].DependsOn = IF k = 1 THEN NoDependsOn ELSE stacks[k - 1].name
        /\ \A k, l \in 1..Len(stacks) :
            (k < l /\ stacks[k].child[1] = stacks[l].child[1]) => stacks[k].child[2] < stacks[l].child[2]
        /\ Cardinality(StacksInProgress) <= 1

\* the least whole number not below x / y
Ceiling(x, y) == CHOOSE n \in 0..x : n * y >= x /\ \A m \in 0..x : m * y >= x => n <= m

\* the greatest number of a set
Maximum(S) == CHOOSE n \in S : \A m \in S : m <= n

\* max_assignments_allocation or num_child_stacks is given
EitherGiven ==
    \/ generation_config._max_assignments_allocation # NoInt
    \/ generation_config._num_child_stacks # NoInt

\* max(ceil(max_assignments_allocation / max_resources_per_template),
\* explicit num_child_stacks), over the settings that are given
GivenChildStacks ==
    Maximum({Ceiling(generation_config._max_assignments_allocation[i], max_resources_per_template(generation_config)) :
                i \in DOMAIN generation_config._max_assignments_allocation}
            \cup {generation_config._num_child_stacks[i] : i \in DOMAIN generation_config._num_child_stacks})

\* ceil(num_resources / max_resources_per_template) of the item
ComputedChildStacks ==
    Ceiling(ResourceCollection_num_resources(resource_collection), max_resources_per_template(generation_config))

\* resolve_templates has returned for the item
Resolved == planner_pc = "get_templates"

\* C19 as stated: the number of child stacks the planner uses is
\* max(ceil(max_assignments_allocation / max_resources_per_template),
\* explicit num_child_stacks) when either setting is given, and
\* ceil(num_resources / max_resources_per_template) when neither is
C19_EffectiveNumChildStacks ==
    Resolved =>
        Len(parent_template.child_templates)
            = IF EitherGiven THEN GivenChildStacks ELSE ComputedChildStacks

\* C19 amended: when either setting is given the planner uses
\* max(ceil(max_assignments_allocation / max_resources_per_template),
\* explicit num_child_stacks) child stacks; when neither is given it uses no
\* child stack, and ceil(num_resources / max_resources_per_template) is only
\* the number of parent resources it reserves for nested stacks
C19_ChildStacksOnlyWhenGiven ==
    /\ Resolved =>
        Len(parent_template.child_templates) = IF EitherGiven THEN GivenChildStacks ELSE 0
    /\ planner_pc # "idle" =>
        get_max_number_of_child_stacks(generation_config, ResourceCollection_num_resources(resource_collection))
            = IF EitherGiven THEN GivenChildStacks ELSE ComputedChildStacks

\* both settings are given, and the allocation asks for more child stacks
\* than the explicit setting
C19_Witness ==
    /\ Resolved
    /\ generation_config._max_assignments_allocation # NoInt
    /\ generation_config._num_child_stacks # NoInt
    /\ Len(parent_template.child_templates) > generation_config._num_child_stacks[1]
    /\ generation_config._num_child_stacks[1] > 0

\* num_child_stacks is None or 0, and resolve_templates is about to run
Inline ==
    /\ planner_pc = "resolve_templates"
    /\ num_child_stacks(generation_config) \in {NoInt, Some(0)}

\* the assignments and the permission set resources of the item, and the
\* resources the parent template has already
InlineResources ==
    Len(resource_collection.assignments) + num_resources(resource_collection.permission_sets)
        + Len(template_collection.parent)

\* C20: when num_child_stacks is None or 0, the planner puts every
\* assignment in the parent template and creates no child template if the
\* assignments, the permission set resources and the resources already in
\* the parent do not exceed max_resources_per_template, and raises otherwise
C20_InlineOrError ==
    [][Inline =>
        IF InlineResources <= max_resources_per_template(generation_config)
        THEN /\ planner_pc' = "get_templates"
             /\ parent_template'.assignments = resource_collection.assignments
             /\ parent_template'.child_templates = <<>>
        ELSE planner_pc' = "raised"]_vars

\* C21: the resource name of an assignment is its prefix, "Assignment" and
\* the first digits of the digest over its instance, principal, permission
\* set and target, whatever else the assignment holds; the assignments of a
\* configuration that are equal in these four get the same name and are one
\* resource of the templates as they are emitted
C21_NameIsTheFingerprint ==
    (Emitted /\ status = Undeployed(template_collection)) =>
        \A i \in DOMAIN template_process_input.items :
            \A a \in Range(template_process_input.items[i].resource_collection.assignments) :
                LET digit == CHOOSE h \in 0..15 : \E l \in 0..15 : get_hash(a) = 16 * h + l
                    resources ==
                        {<<t, k>> \in UNION {{t} \X DOMAIN status[t] : t \in DOMAIN status} :
                            LET r == StackTemplate(template_collection, t)[k] IN
                            /\ r.Type = "AWS::SSO::Assignment"
                            /\ r.assignment._resource_name_prefix = a._resource_name_prefix
                            /\ r.assignment.key = a.key} IN
                /\ Cardinality(resources) = 1
                /\ \A tk \in resources :
                    StackTemplate(template_collection, tk[1])[tk[2]].name
                        = <<a._resource_name_prefix, "Assignment", digit>>

\* an assignment is there twice, once for an account found in an OU and once
\* for the same account of the accounts, and the templates are emitted
C21_Witness ==
    /\ Emitted
    /\ \E a, b \in Range(resource_collection.assignments) :
        a.key = b.key /\ a.source_ou # b.source_ou
    /\ Len(AssignmentsOf(template_collection.parent)) = MaxAssignments

\* C22: no emitted template has a cycle in the dependencies of its
\* resources, and no resource depends on itself: in every non-empty set of
\* resources of a template there is one whose DependsOn leads out of the
\* set; an input that would give a cycle is refused with an error
C22_NoDependencyCycle ==
    (Emitted /\ status = Undeployed(template_collection)) =>
        \A template \in EmittedTemplates :
            \A S \in SUBSET DOMAIN template \ {{}} :
                \E k \in S : IndexOf(template, template[k].DependsOn) \notin S

----------------------------------------------------------------------------
(* The properties of list_assignments *)

\* the generator has ended
Listed == list_pc = "done"

\* the pairs of a target and a permission set ARN the generator visits
Visited ==
    UNION {{target} \X Range(permission_set_iterator(context, target)) : target \in Range(target_iterator(context))}

\* the assignments list_account_assignments returns for an account and a
\* permission set
AccountAssignments(target, permission_set_arn) ==
    Range(SSOAdmin.list_account_assignments[target[2]][permission_set_arn])

\* some principal of the list has the id of the assignment, and a type that
\* is None or the assignment's
InPrincipalList(assignment) ==
    \E i \in DOMAIN context.principal :
        /\ context.principal[i][2] = assignment[2]
        /\ context.principal[i][1] \in {None, assignment[1]}

\* C23: when a principal list is supplied, an assignment list_account_assignments
\* returns is accepted (yielded, if the principal filter lets it pass) if and
\* only if some listed principal has its id and a type that is None or its type
C23_AcceptedIffInPrincipalList ==
    (Listed /\ context.principal # <<>>) =>
        \A v \in Visited : \A assignment \in AccountAssignments(v[1], v[2]) :
            Assignment_(assignment, v[2], v[1]) \in Range(yielded)
                <=> (InPrincipalList(assignment) /\ _filter(assignment, context.principal_filter))

\* C24: no assignment is yielded for a target account the target filter
\* rejects, wherever the account came from: an account of the targets, the
\* accounts of an OU of the targets, or the listing of all accounts
C24_NoFilteredTarget ==
    \A i \in DOMAIN yielded : _filter(yielded[i].target_id, context.target_filter)

\* the principals of the identity store and the permission sets of the instance
AllPrincipals == {<<"GROUP", "g1">>, <<"GROUP", "g2">>, <<"USER", "u1">>}

AllPermissionSets == {"ps-1", "ps-2"}

\* the principals, the permission sets and the expanded target accounts of
\* the configuration: those of its lists, and all of them without a list
PrincipalsOf ==
    IF context.principal = <<>> THEN AllPrincipals
    ELSE {principal \in AllPrincipals : InPrincipalList(principal)}

PermissionSetsOf ==
    IF context.permission_set = <<>> THEN AllPermissionSets ELSE Range(context.permission_set)

ExpandedTargets == Range(target_iterator([context EXCEPT !.target_filter = NoFilter]))

CrossProduct ==
    {Assignment_(principal, permission_set_arn, target) :
        principal \in PrincipalsOf, permission_set_arn \in PermissionSetsOf, target \in ExpandedTargets}

NoFilters ==
    /\ context.principal_filter = NoFilter
    /\ context.permission_set_filter = NoFilter
    /\ context.target_filter = NoFilter

\* the assignments the service holds for the expanded targets and the
\* permission sets of the configuration
ExistingAssignments ==
    {Assignment_(principal, permission_set_arn, target) :
        principal \in AllPrincipals, permission_set_arn \in PermissionSetsOf, target \in ExpandedTargets}
    \cap UNION {{Assignment_(principal, permission_set_arn, target) :
                    principal \in AccountAssignments(target, permission_set_arn)} :
                permission_set_arn \in AllPermissionSets, target \in ExpandedTargets}

RECURSIVE AccountsUnder(_, _)
AccountsUnder(ou, recursive) ==
    Organization.accounts[ou]
        \o (IF recursive
            THEN chain([i \in DOMAIN Organization.children[ou] |->
                           AccountsUnder(Organization.children[ou][i], TRUE)])
            ELSE <<>>)

\* the accounts in the order of the supplied targets and of the pages
TargetOrder ==
    IF context.target = <<>> THEN Organization.list_accounts
    ELSE chain([i \in DOMAIN context.target |->
                   IF context.target[i][1] = "AWS_ACCOUNT" THEN <<context.target[i][2]>>
                   ELSE AccountsUnder(context.target[i][2], context.ou_recursive)])

\* the permission sets of an account in the order of the supplied list, or of
\* the pages
PermissionSetOrder(account) ==
    IF context.permission_set # <<>> THEN context.permission_set
    ELSE SSOAdmin.list_permission_sets_provisioned_to_account[account]

\* yielded[i], yielded[i + 1], ... can be emitted in this order by loops that
\* are at target number t of TargetOrder, at permission set number p of its
\* order, and past assignment number a of the page of the two
RECURSIVE InLoopOrder(_, _, _, _)
InLoopOrder(i, t, p, a) ==
    IF i > Len(yielded) THEN TRUE
    ELSE IF t > Len(TargetOrder) THEN FALSE
    ELSE IF yielded[i].target_id # TargetOrder[t] \/ p > Len(PermissionSetOrder(TargetOrder[t]))
    THEN InLoopOrder(i, t + 1, 1, 0)
    ELSE IF yielded[i].permission_set_arn # PermissionSetOrder(TargetOrder[t])[p]
    THEN InLoopOrder(i, t, p + 1, 0)
    ELSE LET page == SSOAdmin.list_account_assignments[TargetOrder[t]][PermissionSetOrder(TargetOrder[t])[p]]
             later == {k \in DOMAIN page : k > a /\ page[k] = <<yielded[i].principal_type, yielded[i].principal_id>>}
         IN IF later = {} THEN InLoopOrder(i, t, p + 1, 0)
            ELSE InLoopOrder(i + 1, t, p, CHOOSE k \in later : \A l \in later : k <= l)

\* C26: the assignments are yielded in the order of three nested loops, the
\* targets outside in the order they are supplied and the service pages them,
\* the permission sets of a target inside in the order of the list or the
\* pages, the assignments of the two innermost in the order of the pages:
\* all assignments of one target come before any of the next target, within
\* a target all of one permission set before those of the next; nothing is
\* sorted
C26_LoopOrder == InLoopOrder(1, 1, 1, 0)

\* an account, an OU with a child OU and another account are the targets; an
\* account of the OU has two assignments of one permission set, and the last
\* account has two permission sets
C26_Witness ==
    /\ Listed
    /\ Len(context.target) = 3 /\ context.ou_recursive
    /\ \E i, j, k \in DOMAIN yielded :
        /\ i < j /\ j < k /\ k < Len(yielded)
        /\ yielded[i].target_id = "a2" /\ yielded[i + 1].target_id = "a2"
        /\ yielded[j].target_id = "a3"
        /\ yielded[k].target_id = "a1" /\ yielded[k].permission_set_arn = "ps-2"
        /\ yielded[k + 1].target_id = "a1" /\ yielded[k + 1].permission_set_arn = "ps-1"

----------------------------------------------------------------------------
(* The properties of the lookups *)

\* the step is a by-id lookup of an identifier of a kind
ById(kind, id) == lookup_result'.call = <<"lookup_by_id", kind, id>>

\* C27: a by-id lookup that fails because the service does not know the
\* identifier leaves the LookupError in the cache under the identifier's key;
\* no later lookup with the cache takes it away or replaces it; and a by-id
\* lookup of an identifier whose key holds a LookupError raises that error
\* and makes no call to the service
C27_NotFoundIsCached ==
    [][\A kind \in Kinds : \A id \in LookupIds[kind] :
        LET key == cache_key_id(kind, id) IN
        /\ (ById(kind, id) /\ service_calls' # <<>> /\ lookup_result'.outcome = "raise") =>
               /\ key \in DOMAIN lookup_cache'
               /\ lookup_cache'[key] = lookup_result'.value
               /\ IsLookupError(lookup_result'.value)
        /\ (key \in DOMAIN lookup_cache /\ IsLookupError(lookup_cache[key])) =>
               /\ key \in DOMAIN lookup_cache'
               /\ lookup_cache'[key] = lookup_cache[key]
               /\ ById(kind, id) =>
                      /\ lookup_result' = Raised(<<"lookup_by_id", kind, id>>, lookup_cache[key])
                      /\ service_calls' = <<>>]_vars

\* an identifier of each kind was not found, other lookups by id and by name
\* were made with the cache, and a lookup of a missing identifier has just
\* raised the cached error
C27_Witness ==
    /\ \A kind \in Kinds : \E id \in LookupIds[kind] :
           /\ cache_key_id(kind, id) \in DOMAIN lookup_cache
           /\ IsLookupError(lookup_cache[cache_key_id(kind, id)])
    /\ \E kind \in Kinds : \E name \in LookupNames[kind] :
           /\ cache_key_name(kind, name) \in DOMAIN lookup_cache
           /\ ~IsLookupError(lookup_cache[cache_key_name(kind, name)])
    /\ lookup_result # Nothing
    /\ lookup_result.call[1] = "lookup_by_id"
    /\ lookup_result.outcome = "raise"
    /\ service_calls = <<>>

\* the step is a complete lookup_accounts_for_ou of an OU
AccountsForOu(ou, recursive, refresh) ==
    \E exclude_org_mgmt_acct \in {"False", "True"} :
        lookup_result'.call = <<"lookup_accounts_for_ou", ou, recursive, refresh, exclude_org_mgmt_acct>>

\* a cache without one of its keys
Without(cached, key) == [k \in DOMAIN cached \ {key} |-> cached[k]]

\* C28: the accounts directly in an OU are cached under <ou>#accounts and its
\* child OUs under <ou>#children, one independently of the other. A call
\* without refresh for an OU whose accounts are cached makes no
\* list_accounts_for_parent call for it, and a key that was missing holds
\* the service's list afterwards; the same for the child OUs and
\* list_organizational_units_for_parent in a recursive call; and a call that
\* is not recursive neither writes <ou>#children nor depends on it
C28_CachedIndependently ==
    [][\A ou \in DOMAIN Organization.accounts : \A recursive \in Depths :
        LET ou_accounts_key == <<ou, "#accounts">>
            ou_children_key == <<ou, "#children">>
        IN AccountsForOu(ou, recursive, FALSE) =>
            /\ IF ou_accounts_key \in DOMAIN lookup_cache
               THEN /\ <<"list_accounts_for_parent", ou>> \notin Range(service_calls')
                    /\ lookup_cache'[ou_accounts_key] = lookup_cache[ou_accounts_key]
               ELSE /\ <<"list_accounts_for_parent", ou>> \in Range(service_calls')
                    /\ ou_accounts_key \in DOMAIN lookup_cache'
                    /\ lookup_cache'[ou_accounts_key] = Organization.accounts[ou]
            /\ IF recursive = 0
               THEN /\ ou_children_key \in DOMAIN lookup_cache' <=> ou_children_key \in DOMAIN lookup_cache
                    /\ ou_children_key \in DOMAIN lookup_cache =>
                           lookup_cache'[ou_children_key] = lookup_cache[ou_children_key]
                    /\ <<"list_organizational_units_for_parent", ou>> \notin Range(service_calls')
                    /\ lookup_result'.value =
                           lookup_accounts_for_ou(Without(lookup_cache, ou_children_key), ou, 0, FALSE,
                                                  lookup_result'.call[5]).accounts
               ELSE IF ou_children_key \in DOMAIN lookup_cache
               THEN /\ <<"list_organizational_units_for_parent", ou>> \notin Range(service_calls')
                    /\ lookup_cache'[ou_children_key] = lookup_cache[ou_children_key]
               ELSE /\ <<"list_organizational_units_for_parent", ou>> \in Range(service_calls')
                    /\ ou_children_key \in DOMAIN lookup_cache'
                    /\ lookup_cache'[ou_children_key] = Organization.children[ou]]_vars

\* after complete traversals, the accounts of ou-1 are cached and its child
\* OUs are not, and a recursive call for it has asked the service for the
\* child OUs and not for the accounts
C28_Witness ==
    /\ lookup_result # Nothing
    /\ lookup_result.call[1] = "lookup_accounts_for_ou"
    /\ lookup_result.call[2] = "ou-1" /\ lookup_result.call[3] = Recursive /\ ~lookup_result.call[4]
    /\ <<"list_organizational_units_for_parent", "ou-1">> \in Range(service_calls)
    /\ <<"list_accounts_for_parent", "ou-1">> \notin Range(service_calls)
    /\ lookup_result.value = <<"a2", "a4", "a3">>

\* C29: a call with exclude_org_mgmt_acct true asks describe_organization
\* for the management account before anything else, once, and yields the
\* accounts a call without the exclusion yields except the management
\* account: that account is never among them, whatever the depth it is at
\* and whether its OU's accounts come from the service or from the cache
C29_NoManagementAccount ==
    [][\A ou \in DOMAIN Organization.accounts : \A recursive \in Depths : \A refresh \in BOOLEAN :
        lookup_result'.call = <<"lookup_accounts_for_ou", ou, recursive, refresh, "True">> =>
            /\ service_calls'[1] = <<"describe_organization">>
            /\ \A n \in DOMAIN service_calls' : n > 1 => service_calls'[n] # <<"describe_organization">>
            /\ service.MasterAccountId \notin Range(lookup_result'.value)
            /\ lookup_result'.value =
                   SelectSeq(lookup_accounts_for_ou(lookup_cache, ou, recursive, refresh, "False").accounts,
                             LAMBDA account : account # service.MasterAccountId)]_vars

\* the management account is two levels below the root; a traversal from the
\* root that excludes it took the root's accounts from the service and the
\* accounts of the management account's OU from the cache
C29_Witness ==
    /\ service.MasterAccountId = "a3"
    /\ lookup_result # Nothing
    /\ lookup_result.call = <<"lookup_accounts_for_ou", "r-1", Recursive, FALSE, "True">>
    /\ <<"list_accounts_for_parent", "r-1">> \in Range(service_calls)
    /\ <<"list_accounts_for_parent", "ou-2">> \notin Range(service_calls)
    /\ lookup_result.value = <<"a1", "a2", "a4">>

----------------------------------------------------------------------------
(* The properties of the Ids object *)

\* the step reads a property of the Ids object
Reads(property) == ids # Nothing /\ lookup_result' # Nothing /\ lookup_result'.call = <<property>>

\* the instances of the service with the identity store id of the object
Candidates ==
    SelectSeq(service.Instances, LAMBDA instance : instance.IdentityStoreId = ids._identity_store_id)

\* C30: with neither identifier given, reading a property gives a value only
\* when list_instances returns exactly one instance, and raises LookupError
\* when it returns none or several; with only the identity store id given,
\* more than one instance of that identity store makes the discovery of the
\* instance ARN raise a LookupError that lists the ARNs of these instances;
\* and an object that holds both identifiers returns them at every read and
\* keeps them
C30_Discovery ==
    [][\A property \in {"instance_arn", "identity_store_id"} : Reads(property) =>
        /\ (~ids._instance_arn_specified /\ ~ids._identity_store_id_specified) =>
               /\ lookup_result'.outcome = "return" <=> Len(service.Instances) = 1
               /\ lookup_result'.outcome = "raise" => IsLookupError(lookup_result'.value)
        /\ (~ids._instance_arn_specified /\ ids._identity_store_id_specified
                /\ property = "instance_arn" /\ ids._instance_arn = None /\ Len(Candidates) > 1) =>
               /\ lookup_result'.outcome = "raise"
               /\ IsLookupError(lookup_result'.value)
               /\ lookup_result'.value.LookupError.arns
                      = [i \in DOMAIN Candidates |-> Candidates[i].InstanceArn]
        /\ (ids._instance_arn # None /\ ids._identity_store_id # None) =>
               /\ lookup_result' = Returned(<<property>>,
                                            IF property = "instance_arn" THEN ids._instance_arn
                                            ELSE ids._identity_store_id)
               /\ ids'._instance_arn = ids._instance_arn
               /\ ids'._identity_store_id = ids._identity_store_id]_vars

\* an object made with neither identifier has found the only instance of the
\* service, and a later read has returned what it holds without a call
C30_Witness ==
    /\ ids # Nothing /\ lookup_result # Nothing
    /\ ~ids._instance_arn_specified /\ ~ids._identity_store_id_specified
    /\ Len(service.Instances) = 1
    /\ ids._instance_arn = service.Instances[1].InstanceArn
    /\ ids._identity_store_id = service.Instances[1].IdentityStoreId
    /\ ~ids._cache
    /\ lookup_result = Returned(<<"identity_store_id">>, "d-1")
    /\ service_calls = <<>>

----------------------------------------------------------------------------
(* The properties of the sessions of the configuration *)

\* the sessions that the entries of a configuration hold, in the order of
\* the scan: the specifier of the environment, the profiles, the sso-sessions
Loaded(config) ==
    <<get_specifier(config)>>
    \o [n \in 1..Len(config.profiles) |->
           get_session_from_config_profile(config.profiles[n][1], TRUE, config)]
    \o [n \in 1..Len(config.sso_sessions) |->
           get_session_from_config_session(config.sso_sessions[n][1], NoSource, config)]

WellFormed(config) ==
    LET sessions == SelectSeq(Loaded(config),
                              LAMBDA l : l.outcome = "return" /\ l.value # <<>>)
    IN [n \in 1..Len(sessions) |->
           IF sessions[n].call[1] = "Specifier" THEN sessions[n].value[1].session
           ELSE sessions[n].value]

\* the sessions of a configuration that differ from an earlier session of
\* their name in the start URL, the region or the scopes
Mismatched(config) ==
    LET sessions == SelectSeq(WellFormed(config), LAMBDA s : s # <<>>)
    IN {n \in 1..Len(sessions) :
           \E first \in 1..(n - 1) :
              /\ sessions[first][1].session_name = sessions[n][1].session_name
              /\ \A earlier \in 1..(first - 1) :
                    sessions[earlier][1].session_name # sessions[n][1].session_name
              /\ \/ sessions[first][1].start_url # sessions[n][1].start_url
                 \/ sessions[first][1].region # sessions[n][1].region
                 \/ sessions[first][1].registration_scopes # sessions[n][1].registration_scopes}

MismatchedNames(config) ==
    LET sessions == SelectSeq(WellFormed(config), LAMBDA s : s # <<>>)
    IN {sessions[n][1].session_name : n \in Mismatched(config)}

\* C31: find_all_sessions keeps one session of every name and records a
\* MismatchedSession under the name of every later session that differs from
\* the recorded one in the start URL, the region or the scopes, and
\* raise_for_mismatch raises MismatchedSessionError exactly for selected
\* sessions with a recorded mismatch
C31_MismatchRecorded ==
    /\ all_sessions # Nothing =>
          /\ all_sessions.outcome = "return"
          /\ \A i, j \in DOMAIN all_sessions.value.unique_sessions :
                all_sessions.value.unique_sessions[i].session_name
                    = all_sessions.value.unique_sessions[j].session_name => i = j
          /\ \A name \in MismatchedNames(full_config) :
                name \in Keys(all_sessions.value.mismatched_sessions)
    /\ (selected # Nothing /\ selected.call[1] = "raise_for_mismatch") =>
          (selected.outcome = "raise" /\ "MismatchedSessionError" \in DOMAIN selected.value)
              <=> \E i \in DOMAIN selected.call[2] :
                     selected.call[2][i].session_name \in MismatchedNames(full_config)

\* the names of the entries of a configuration that are malformed: a profile
\* or an sso-session with only one of sso_start_url and sso_region, and an
\* sso-session whose registration scopes cannot be parsed
OnlyOneOf(entry) ==
    ("sso_start_url" \in DOMAIN entry) # ("sso_region" \in DOMAIN entry)

MalformedEntries(config) ==
    {config.profiles[n][1] : n \in {i \in DOMAIN config.profiles :
        /\ "sso_session" \notin DOMAIN config.profiles[i][2]
        /\ OnlyOneOf(config.profiles[i][2])}}
    \cup {config.sso_sessions[n][1] : n \in {i \in DOMAIN config.sso_sessions :
        \/ OnlyOneOf(config.sso_sessions[i][2])
        \/ /\ "sso_registration_scopes" \in DOMAIN config.sso_sessions[i][2]
           /\ config.sso_sessions[i][2].sso_registration_scopes \notin {"sso:account:access", "a, b"}}}

\* C32: with a malformed profile or sso-session in the configuration,
\* find_all_sessions returns, with one error for every malformed entry in
\* malformed_session_errors and with every well-formed session of the
\* configuration in all_sessions
C32_MalformedEntries ==
    (/\ all_sessions # Nothing
     /\ MalformedEntries(full_config) # {}
     /\ Mismatched(full_config) = {}) =>
        /\ all_sessions.outcome = "return"
        /\ \A name \in MalformedEntries(full_config) :
              Cardinality({i \in DOMAIN all_sessions.value.malformed_session_errors :
                  /\ "name" \in DOMAIN all_sessions.value.malformed_session_errors[i]
                  /\ all_sessions.value.malformed_session_errors[i].name = name}) = 1
        /\ \A n \in DOMAIN WellFormed(full_config) :
              WellFormed(full_config)[n] # <<>> =>
                 \E i \in DOMAIN all_sessions.value.all_sessions :
                    all_sessions.value.all_sessions[i] = WellFormed(full_config)[n][1]

\* the session names of the model that a regular expression of the model
\* matches, and the specifier values that begin with http
Language ==
    [pattern \in {"dev", "^dev$", "de.", "d", "p"} |->
        CASE pattern = "dev" -> {"dev", "dev2"}
          [] pattern = "^dev$" -> {"dev"}
          [] pattern = "de." -> {"dev", "dev2"}
          [] pattern = "d" -> {"dev", "dev2", "prod"}
          [] pattern = "p" -> {"prod", "https://a", "https://b"}]

BeginsWithHttp == {"https://a", "https://b"}

----------------------------------------------------------------------------
(* The properties of the assignment configuration *)

\* C34: every account id that format_account_id gives the loader is a string
\* of exactly 12 decimal digits
C34_TwelveDigits ==
    loaded_config # Nothing =>
        \A i \in DOMAIN loaded_config.accounts :
            /\ loaded_config.accounts[i].type = "str"
            /\ Len(loaded_config.accounts[i].chars) = 12
            /\ \A k \in DOMAIN loaded_config.accounts[i].chars :
                  loaded_config.accounts[i].chars[k] \in Digits

\* the same for the accounts that are given as strings of at most 12 digits
\* or as integers from 0 to 999999999999
C34_Padded ==
    loaded_config # Nothing =>
        \A i \in DOMAIN loaded_config.accounts :
            LET given == _get_value(config_data, <<"Accounts", "Account">>, TRUE)[i]
            IN (\/ given.type = "str" /\ Len(given.chars) <= 12
                   /\ \A k \in DOMAIN given.chars : given.chars[k] \in Digits
                \/ given.type = "int" /\ ~ given.negative /\ Len(given.digits) <= 12) =>
                    /\ loaded_config.accounts[i].type = "str"
                    /\ Len(loaded_config.accounts[i].chars) = 12
                    /\ \A k \in DOMAIN loaded_config.accounts[i].chars :
                          loaded_config.accounts[i].chars[k] \in Digits

\* C35: validate_config returns for a config with a principal, a permission
\* set and a target, which is an account, an OU or a recursive OU, raises
\* ConfigError for every other config, and leaves a config without an
\* instance with the instance ARN of ids
C35_ValidateConfig ==
    validation # Nothing =>
        LET config == validation.call[2]
            complete == /\ config.groups # <<>> \/ config.users # <<>>
                        /\ config.permission_sets # <<>>
                        /\ \/ config.accounts # <<>>
                           \/ config.ous # <<>>
                           \/ config.recursive_ous # <<>>
        IN (validation.outcome = "raise" /\ "LookupError" \in DOMAIN validation.value)
           \/ /\ complete <=> validation.outcome = "return"
              /\ ~ complete <=> (/\ validation.outcome = "raise"
                                 /\ "ConfigError" \in DOMAIN validation.value)
              /\ config.instance = None =>
                    loaded_config.instance = Ids_instance_arn(TRUE).value

\* the same with the targets that validate_config counts
C35_WithoutRecursiveOus ==
    validation # Nothing =>
        LET config == validation.call[2]
            complete == /\ config.groups # <<>> \/ config.users # <<>>
                        /\ config.permission_sets # <<>>
                        /\ config.accounts # <<>> \/ config.ous # <<>>
        IN (validation.outcome = "raise" /\ "LookupError" \in DOMAIN validation.value)
           \/ /\ complete <=> validation.outcome = "return"
              /\ ~ complete <=> (/\ validation.outcome = "raise"
                                 /\ "ConfigError" \in DOMAIN validation.value)
              /\ config.instance = None =>
                    loaded_config.instance = Ids_instance_arn(TRUE).value

----------------------------------------------------------------------------
(* The properties of the macro handler *)

\* C36: the handler returns an object with the requestId of the event and
\* with the status success or failure, the failure with an errorMessage
C36_Response ==
    macro_response # Nothing =>
        /\ macro_response.value # <<>>
        /\ macro_response.value[1].requestId = macro_event.requestId
        /\ macro_response.value[1].status \in {"success", "failure"}
        /\ macro_response.value[1].status = "failure" =>
              "errorMessage" \in DOMAIN macro_response.value[1]

\* the object that is returned has the requestId of the event, the status
\* success and a fragment
C36_Success ==
    (macro_response # Nothing /\ macro_response.value # <<>>) =>
        /\ macro_response.value[1].requestId = macro_event.requestId
        /\ macro_response.value[1].status = "success"
        /\ "fragment" \in DOMAIN macro_response.value[1]

----------------------------------------------------------------------------
(* The token entries of the cache *)

TokenKeys == {_token_cache_key(s.start_url, s.session_name) : s \in Sessions}

TokenEntries(c) == [k \in TokenKeys \cap DOMAIN c |-> c[k]]

TokenIssued(events) ==
    \E i \in DOMAIN events : events[i].ev = "create_token" /\ events[i].resp = Success

\* C37: a step of a fetch_token call changes the token entries of the cache
\* only after a create_token call of this flow has succeeded, and then only
\* the entry of its session, with the token it returns; a call that raises
\* has had no such answer, so the entries are as they were before the call
C37_TokenEntryFrame ==
    [][\A f \in Flows :
          (Op(f) = "fetch_token" /\ pc'[f] # pc[f]) =>
             /\ TokenEntries(cache') # TokenEntries(cache) =>
                   /\ TokenIssued(log[f])
                   /\ pc'[f] = "done"
                   /\ \A k \in TokenKeys \cap DOMAIN cache :
                         k # _token_cache_key(args[f].start_url, args[f].session_name)
                            => k \in DOMAIN cache' /\ cache'[k] = cache[k]
                   /\ cache'[_token_cache_key(args[f].start_url, args[f].session_name)] = ret'[f]
             /\ pc'[f] = "raised" =>
                   /\ ~ TokenIssued(log'[f])
                   /\ TokenEntries(cache') = TokenEntries(cache)]_vars

\* a call for a session whose token is in the cache has raised for an
\* authorization that expired, or for a user that is not there
C37_Witness ==
    \E f \in Flows :
        /\ Op(f) = "fetch_token"
        /\ pc[f] = "raised"
        /\ err[f] \in {"PendingAuthorizationExpiredError", "AuthenticationNeededError"}
        /\ _token_cache_key(args[f].start_url, args[f].session_name) \in DOMAIN cache
        /\ "expiresAt" \in DOMAIN cache[_token_cache_key(args[f].start_url, args[f].session_name)]

----------------------------------------------------------------------------
(* The properties of the credentials of a session *)

\* the key under which the login of a session stores its token
LoginKey(session) ==
    _token_cache_key(session.start_url,
                     IF is_inline_session(session) THEN None ELSE session.session_name)

Credential(f) ==
    /\ "caller" \in DOMAIN args[f]
    /\ args[f].caller \in {"get_credentials", "create_sso_provider"}

\* C38: the credentials of a session, named or inline, are fetched under the
\* token cache key of its login, and with the unexpired token of the login in
\* the cache no registration and no device authorization is started
C38_SameTokenCacheKey ==
    \A f \in Flows :
        Credential(f) =>
           /\ _token_cache_key(args[f].start_url, args[f].session_name) = LoginKey(args[f].session)
           /\ (/\ ~ args[f].force_refresh
               /\ LoginKey(args[f].session) \in DOMAIN cache
               /\ ~ _is_expired(cache[LoginKey(args[f].session)]))
                 => pc[f] \notin {"_registration", "_register_client", "_authorize_client"}

\* the same for the sessions that are inline, and for the named ones through
\* the token provider
C38_InlineOrProvider ==
    \A f \in Flows :
        (Credential(f) /\ (is_inline_session(args[f].session) \/ args[f].caller = "create_sso_provider")) =>
           /\ _token_cache_key(args[f].start_url, args[f].session_name) = LoginKey(args[f].session)
           /\ (/\ ~ args[f].force_refresh
               /\ LoginKey(args[f].session) \in DOMAIN cache
               /\ ~ _is_expired(cache[LoginKey(args[f].session)]))
                 => pc[f] \notin {"_registration", "_register_client", "_authorize_client", "raised"}

----------------------------------------------------------------------------
(* The properties of the cache of the accounts of an OU *)

\* the list holds each of the items once, and nothing else
EachExactlyOnce(list, items) ==
    /\ Range(list) = Range(items)
    /\ \A i, j \in DOMAIN list : list[i] = list[j] => i = j

\* C39: whatever calls of lookup_accounts_for_ou have shared the cache, with
\* refresh or without, iterated to the end or abandoned, the list cached
\* under <ou>#accounts holds each direct account of the OU exactly once and
\* the list under <ou>#children each child OU exactly once, and a call served
\* from the cache yields the accounts a call served by the service yields
C39_CachedExactlyOnce ==
    /\ \A key \in DOMAIN lookup_cache :
           /\ key[2] = "#accounts" => EachExactlyOnce(lookup_cache[key], Organization.accounts[key[1]])
           /\ key[2] = "#children" => EachExactlyOnce(lookup_cache[key], Organization.children[key[1]])
    /\ \A ou \in DOMAIN Organization.accounts : \A recursive \in Depths :
           lookup_accounts_for_ou(lookup_cache, ou, recursive, FALSE, "False").accounts
               = lookup_accounts_for_ou(<<>>, ou, recursive, FALSE, "False").accounts

\* the same when no call refreshes and every iteration goes to its end
C39_WithoutRefresh ==
    [][(/\ lookup_result' # lookup_result
        /\ ~ lookup_result'.call[4]
        /\ lookup_cache'
               = lookup_accounts_for_ou(lookup_cache, lookup_result'.call[2], lookup_result'.call[3],
                                        FALSE, lookup_result'.call[5]).cache
        /\ \A key \in DOMAIN lookup_cache :
               EachExactlyOnce(lookup_cache[key],
                               IF key[2] = "#accounts" THEN Organization.accounts[key[1]]
                               ELSE Organization.children[key[1]]))
       => \A key \in DOMAIN lookup_cache' :
               EachExactlyOnce(lookup_cache'[key],
                               IF key[2] = "#accounts" THEN Organization.accounts[key[1]]
                               ELSE Organization.children[key[1]])]_vars

----------------------------------------------------------------------------
(* The DependsOn of the emitted templates *)

\* C40: every DependsOn of an emitted template, parent or child, names a
\* resource of that same template, also when child shards are empty and when
\* assignments of one resource name collapse into one resource
C40_DependsOnIsPresent ==
    Emitted =>
        \A template \in EmittedTemplates :
            \A k \in DOMAIN template :
                template[k].DependsOn # NoDependsOn => IndexOf(template, template[k].DependsOn) # 0

\* a nested stack is emitted for a shard that comes after an empty one,
\* under a window
AfterAnEmptyShard ==
    /\ max_concurrent_assignments(generation_config) # 0
    /\ \E stack \in Range(NestedStacksOf(template_collection.parent)) :
           /\ stack.child[2] > 0
           /\ \A other \in Range(NestedStacksOf(template_collection.parent)) :
                  other.child # <<stack.child[1], stack.child[2] - 1>>

\* a template has fewer assignment resources than assignments, and one of
\* them has a DependsOn
Collapsed ==
    \E template \in EmittedTemplates :
        /\ \E a, b \in DOMAIN resource_collection.assignments :
               /\ a # b
               /\ get_resource_name(resource_collection.assignments[a])
                      = get_resource_name(resource_collection.assignments[b])
               /\ IndexOf(template, get_resource_name(resource_collection.assignments[a])) # 0
        /\ \E k \in DOMAIN template :
               template[k].Type = "AWS::SSO::Assignment" /\ template[k].DependsOn # NoDependsOn

C40_Witness == Emitted /\ AfterAnEmptyShard /\ Collapsed

====
